---- MODULE Spec2Model ----
(***************************************************************************)
(* A model of the JSON diff engine: the JSON value model, the recursive    *)
(* differ with its three array strategies, and the result aggregator.      *)
(*                                                                         *)
(* JSON values are tagged records.  Numbers are integers; an object is the *)
(* sequence of its own properties in insertion order (keys distinct), as   *)
(* Object.keys and JSON.stringify see them.  Two values that are not JSON  *)
(* but that the code can meet are modelled too: undefined (a missing       *)
(* property) and a function (a property inherited from Object.prototype).  *)
(***************************************************************************)
EXTENDS Integers, Sequences, FiniteSets, TLC

VARIABLES
    left,       \* the left document's value
    right,      \* the right document's value
    settings,   \* the CompareSettings of the comparison
    entries,    \* the entry list (computeDiff's result, fromEntries' input)
    stats,      \* the DiffStats derived by DiffResult.fromEntries
    pc,         \* "input": nothing called yet; then what the call did:
                \* "done": compared; "threw": an exception was raised;
                \* "failed": the comparison returned an error; "parsed",
                \* "validated", "formatted", "exported": the call returned
    input,      \* the raw text handed to the parser
    leftJson,   \* the left raw text handed to compareJson
    rightJson,  \* the right raw text handed to compareJson
    format,     \* the export target
    result,     \* what the call returned or threw
    file,       \* the file handed to the browser by the export
    state       \* the AppState of the useDiff hook

vars == <<left, right, settings, entries, stats, pc,
          input, leftJson, rightJson, format, result, file, state>>

\* The variables of the text, export and hook operations.
ioVars == <<input, leftJson, rightJson, format, result, file, state>>

\* No text, no result, no file, no hook.
None == [k |-> "none"]

\* The text and export operations are not in play.
IoIdle ==
    /\ input = None
    /\ leftJson = None
    /\ rightJson = None
    /\ format = "json"
    /\ result = None
    /\ file = None
    /\ state = None

----------------------------------------------------------------------------
(* The value model *)

Undefined == [k |-> "undefined"]
Null == [k |-> "null"]
Bool(b) == [k |-> "boolean", v |-> b]
Num(n) == [k |-> "number", v |-> n]
Str(s) == [k |-> "string", v |-> s]
Arr(items) == [k |-> "array", v |-> items]
Obj(props) == [k |-> "object", v |-> props]
Fn(name) == [k |-> "function", v |-> name]
Prop(key, val) == [key |-> key, val |-> val]

\* The properties every plain object inherits from Object.prototype.
ObjectPrototypeKeys ==
    {"constructor", "hasOwnProperty", "isPrototypeOf", "propertyIsEnumerable",
     "toLocaleString", "toString", "valueOf"}

\* JavaScript's typeof.
typeof(value) ==
    IF value.k \in {"null", "array", "object"} THEN "object" ELSE value.k

\* Array.isArray.
isArray(value) == value.k = "array"

isJsonObject(value) ==
    value # Null /\ typeof(value) = "object" /\ ~isArray(value)

isJsonArray(value) == isArray(value)

\* isJsonPrimitive without its null test: typeof null is "object".
isJsonPrimitiveTypeofOnly(value) == typeof(value) # "object"

isJsonPrimitive(value) == value = Null \/ typeof(value) # "object"

\* Object.keys(obj): the own keys, in insertion order.
ObjectKeys(obj) == [i \in 1..Len(obj.v) |-> obj.v[i].key]

HasOwn(obj, key) == \E i \in 1..Len(obj.v) : obj.v[i].key = key

\* `key in obj`: own or inherited.
In(key, obj) == HasOwn(obj, key) \/ key \in ObjectPrototypeKeys

\* obj[key]: the own value, else the inherited function, else undefined.
Get(obj, key) ==
    IF HasOwn(obj, key)
    THEN (CHOOSE p \in {obj.v[i] : i \in 1..Len(obj.v)} : p.key = key).val
    ELSE IF key \in ObjectPrototypeKeys THEN Fn(key) ELSE Undefined

\* left === right on values that are not containers.
StrictEquals(l, r) == l = r

Abs(n) == IF n < 0 THEN -n ELSE n

\* The insertion-ordered Set built from a sequence: first occurrences only.
RECURSIVE SetOf(_)
SetOf(s) ==
    IF s = <<>> THEN <<>>
    ELSE LET init == SetOf(SubSeq(s, 1, Len(s) - 1))
             last == s[Len(s)]
         IN  IF \E i \in 1..Len(init) : init[i] = last THEN init
             ELSE Append(init, last)

RECURSIVE Flatten(_)
\* The concatenation of a sequence of sequences.
Flatten(lists) ==
    IF lists = <<>> THEN <<>> ELSE Head(lists) \o Flatten(Tail(lists))

\* Whether a JavaScript value is truthy (as `&&` and `!` read it).
Truthy(value) ==
    CASE value.k = "undefined" -> FALSE
      [] value.k = "null" -> FALSE
      [] value.k = "boolean" -> value.v
      [] value.k = "number" -> value.v # 0
      [] value.k = "string" -> value.v # ""
      [] OTHER -> TRUE

RECURSIVE Join(_, _)
RECURSIVE StringOf(_)
\* Array.prototype.join over the elements' String().
Join(items, sep) ==
    IF items = <<>> THEN ""
    ELSE IF Len(items) = 1
         THEN (IF items[1] \in {Null, Undefined} THEN "" ELSE StringOf(items[1]))
         ELSE Join(SubSeq(items, 1, Len(items) - 1), sep) \o sep \o
              (IF items[Len(items)] \in {Null, Undefined} THEN ""
               ELSE StringOf(items[Len(items)]))

\* String(value).
StringOf(value) ==
    CASE value.k = "undefined" -> "undefined"
      [] value.k = "null" -> "null"
      [] value.k = "boolean" -> (IF value.v THEN "true" ELSE "false")
      [] value.k = "number" -> ToString(value.v)
      [] value.k = "string" -> value.v
      [] value.k = "array" -> Join(value.v, ",")
      [] value.k = "object" -> "[object Object]"
      [] OTHER -> "function " \o value.v \o "() { [native code] }"

RECURSIVE stringify(_)
RECURSIVE stringifyItems(_)
RECURSIVE stringifyProps(_)
\* JSON.stringify(value), as the sequence of the text's tokens.
stringify(value) ==
    CASE value.k = "null" -> <<"null">>
      [] value.k = "boolean" -> <<IF value.v THEN "true" ELSE "false">>
      [] value.k = "number" -> <<ToString(value.v)>>
      [] value.k = "string" -> <<"\"", value.v, "\"">>
      [] value.k = "array" -> <<"[">> \o stringifyItems(value.v) \o <<"]">>
      [] value.k = "object" -> <<"{">> \o stringifyProps(value.v) \o <<"}">>
      [] OTHER -> <<>>   \* undefined and functions: no text at all

stringifyItems(items) ==
    IF items = <<>> THEN <<>>
    ELSE LET one == IF items[1].k \in {"undefined", "function"} THEN <<"null">>
                    ELSE stringify(items[1])
         IN  IF Len(items) = 1 THEN one
             ELSE one \o <<",">> \o stringifyItems(Tail(items))

stringifyProps(props) ==
    IF props = <<>> THEN <<>>
    ELSE LET one == <<"\"", props[1].key, "\"", ":">> \o stringify(props[1].val)
         IN  IF Len(props) = 1 THEN one
             ELSE one \o <<",">> \o stringifyProps(Tail(props))

----------------------------------------------------------------------------
(* Diff entries.  An absent leftValue or rightValue is Undefined. *)

\* createAddedEntry storing the value on the wrong side.
createAddedEntryAsLeft(path, value) ==
    [type |-> "added", path |-> path, leftValue |-> value, rightValue |-> Undefined]

createAddedEntry(path, value) ==
    [type |-> "added", path |-> path, leftValue |-> Undefined, rightValue |-> value]

createRemovedEntry(path, value) ==
    [type |-> "removed", path |-> path, leftValue |-> value, rightValue |-> Undefined]

createModifiedEntry(path, leftValue, rightValue) ==
    [type |-> "modified", path |-> path, leftValue |-> leftValue,
     rightValue |-> rightValue]

createUnchangedEntry(path, leftValue, rightValue) ==
    [type |-> "unchanged", path |-> path, leftValue |-> leftValue,
     rightValue |-> rightValue]

\* The outcome of a call that threw a TypeError instead of returning a list.
Thrown == <<[type |-> "TypeError"]>>

\* entries.push(...more): an exception raised while computing either part
\* leaves the whole call without a list.
Concat(list, more) ==
    IF list = Thrown \/ more = Thrown THEN Thrown ELSE list \o more

----------------------------------------------------------------------------
(* The differ *)

RECURSIVE computeDiff(_, _, _, _)
RECURSIVE compareObjectsFrom(_, _, _, _, _, _)
RECURSIVE compareArraysOrderedFrom(_, _, _, _, _, _)
RECURSIVE compareArraysUnorderedFrom(_, _, _, _, _)
RECURSIVE compareArraysByKeyFrom(_, _, _, _, _, _)

\* The null/undefined equivalence test that opens computeDiff and areValuesEqual.
bothNullish(l, r, s) ==
    s.treatNullAsUndefined /\ l \in {Null, Undefined} /\ r \in {Null, Undefined}

\* The float tolerance test of comparePrimitives and areValuesEqual.
bothNumbersWithTolerance(l, r, s) ==
    typeof(l) = "number" /\ typeof(r) = "number" /\ s.floatTolerance # Undefined

\* comparePrimitives with `<` for `<=` in the tolerance test.
comparePrimitivesStrictlyWithin(l, r, s, path) ==
    IF bothNumbersWithTolerance(l, r, s) /\ Abs(l.v - r.v) < s.floatTolerance.v
    THEN <<createUnchangedEntry(path, l, r)>>
    ELSE IF StrictEquals(l, r)
         THEN <<createUnchangedEntry(path, l, r)>>
         ELSE <<createModifiedEntry(path, l, r)>>

comparePrimitives(l, r, s, path) ==
    IF bothNumbersWithTolerance(l, r, s) /\ Abs(l.v - r.v) <= s.floatTolerance.v
    THEN <<createUnchangedEntry(path, l, r)>>
    ELSE IF StrictEquals(l, r)
         THEN <<createUnchangedEntry(path, l, r)>>
         ELSE <<createModifiedEntry(path, l, r)>>

\* The type mismatch test of computeDiff.
typeMismatch(l, r) == typeof(l) # typeof(r) \/ isArray(l) # isArray(r)

\* computeDiff ending without its last return.
fallbackNone(l, r, path) == <<>>

\* The last return of computeDiff, reached by null against an object.
fallbackModified(l, r, path) == <<createModifiedEntry(path, l, r)>>

\* compareObjects' iteration with the Removed entry built from the right value.
compareObjectsKeyRemovedRight(l, r, s, path, key) ==
    LET leftValue == Get(l, key)
        rightValue == Get(r, key)
        newPath == Append(path, key)
    IN  IF ~In(key, l) THEN <<createAddedEntry(newPath, rightValue)>>
        ELSE IF ~In(key, r) THEN <<createRemovedEntry(newPath, rightValue)>>
        ELSE computeDiff(leftValue, rightValue, s, newPath)

\* One iteration of compareObjects' loop, for the key at position i of allKeys.
compareObjectsKey(l, r, s, path, key) ==
    LET leftValue == Get(l, key)
        rightValue == Get(r, key)
        newPath == Append(path, key)
    IN  IF ~In(key, l) THEN <<createAddedEntry(newPath, rightValue)>>
        ELSE IF ~In(key, r) THEN <<createRemovedEntry(newPath, leftValue)>>
        ELSE computeDiff(leftValue, rightValue, s, newPath)

compareObjectsFrom(l, r, s, path, allKeys, i) ==
    IF i > Len(allKeys) THEN <<>>
    ELSE Concat(compareObjectsKey(l, r, s, path, allKeys[i]),
                compareObjectsFrom(l, r, s, path, allKeys, i + 1))

compareObjects(l, r, s, path) ==
    compareObjectsFrom(l, r, s, path, SetOf(ObjectKeys(l) \o ObjectKeys(r)), 1)

\* One iteration of compareArraysOrdered's loop; i is the 0-based index.
compareArraysOrderedAt(l, r, s, path, i) ==
    LET newPath == Append(path, ToString(i))
    IN  IF i >= Len(l.v) THEN <<createAddedEntry(newPath, r.v[i + 1])>>
        ELSE IF i >= Len(r.v) THEN <<createRemovedEntry(newPath, l.v[i + 1])>>
        ELSE computeDiff(l.v[i + 1], r.v[i + 1], s, newPath)

Max(a, b) == IF a >= b THEN a ELSE b

\* The loop of compareArraysOrdered from 0-based index i up to maxLength.
compareArraysOrderedFrom(l, r, s, path, i, maxLength) ==
    IF i >= maxLength THEN <<>>
    ELSE Concat(compareArraysOrderedAt(l, r, s, path, i),
                compareArraysOrderedFrom(l, r, s, path, i + 1, maxLength))

\* compareArraysOrdered with Math.min for Math.max.
compareArraysOrderedMin(l, r, s, path) ==
    compareArraysOrderedFrom(l, r, s, path, 0,
                             IF Len(l.v) <= Len(r.v) THEN Len(l.v) ELSE Len(r.v))

compareArraysOrdered(l, r, s, path) ==
    compareArraysOrderedFrom(l, r, s, path, 0, Max(Len(l.v), Len(r.v)))

areValuesEqual(l, r, s) ==
    IF bothNullish(l, r, s) THEN TRUE
    ELSE IF bothNumbersWithTolerance(l, r, s)
         THEN Abs(l.v - r.v) <= s.floatTolerance.v
         ELSE stringify(l) = stringify(r)

\* rightCopy.findIndex(areValuesEqual(leftItem, .)): 1-based, 0 when none.
\* rightCopy holds the right items with the index each has in `right`, which
\* stands for the item's identity.
findMatchIndex(leftItem, rightCopy, s) ==
    LET hits == {j \in 1..Len(rightCopy) : areValuesEqual(leftItem, rightCopy[j].val, s)}
    IN  IF hits = {} THEN 0 ELSE CHOOSE j \in hits : \A h \in hits : j <= h

\* rightCopy.splice(matchIndex, 1).
splice(rightCopy, matchIndex) ==
    SubSeq(rightCopy, 1, matchIndex - 1) \o SubSeq(rightCopy, matchIndex + 1, Len(rightCopy))

\* right.indexOf(rightItem), 0-based: containers are found by identity,
\* every other value by ===, so at its first equal occurrence.
indexOf(r, rightItem) ==
    LET same(j) == IF typeof(rightItem.val) = "object" /\ rightItem.val # Null
                   THEN j - 1 = rightItem.idx
                   ELSE StrictEquals(r.v[j], rightItem.val)
        hits == {j \in 1..Len(r.v) : same(j)}
    IN  (CHOOSE j \in hits : \A h \in hits : j <= h) - 1

\* The second loop of compareArraysUnordered: what is left in rightCopy.
unorderedAdded(r, rightCopy, path) ==
    [j \in 1..Len(rightCopy) |->
        createAddedEntry(Append(path, ToString(indexOf(r, rightCopy[j]))),
                         rightCopy[j].val)]

\* The first loop of compareArraysUnordered from 0-based index i on, followed
\* by the second loop.
compareArraysUnorderedFrom(l, r, s, path, st) ==
    IF st.i >= Len(l.v) THEN unorderedAdded(r, st.rightCopy, path)
    ELSE LET leftItem == l.v[st.i + 1]
             matchIndex == findMatchIndex(leftItem, st.rightCopy, s)
             here == Append(path, ToString(st.i))
         IN  IF matchIndex = 0
             THEN <<createRemovedEntry(here, leftItem)>>
                  \o compareArraysUnorderedFrom(l, r, s, path,
                        [i |-> st.i + 1, rightCopy |-> st.rightCopy])
             ELSE <<createUnchangedEntry(here, leftItem, leftItem)>>
                  \o compareArraysUnorderedFrom(l, r, s, path,
                        [i |-> st.i + 1, rightCopy |-> splice(st.rightCopy, matchIndex)])

compareArraysUnordered(l, r, s, path) ==
    compareArraysUnorderedFrom(l, r, s, path,
        [i |-> 0, rightCopy |-> [j \in 1..Len(r.v) |-> [idx |-> j - 1, val |-> r.v[j]]]])

\* Map.set(key, item): a new key goes last, a known key keeps its place.
mapSet(map, key, item) ==
    IF \E i \in 1..Len(map) : map[i].key = key
    THEN [i \in 1..Len(map) |-> IF map[i].key = key THEN Prop(key, item) ELSE map[i]]
    ELSE Append(map, Prop(key, item))

\* Map.get answering with the first item stored, whatever the key.
mapGetFirst(map, key) ==
    IF map = <<>> THEN Undefined ELSE map[1].val

\* Map.get(key): the item, or undefined.
mapGet(map, key) ==
    IF \E i \in 1..Len(map) : map[i].key = key
    THEN (CHOOSE p \in {map[i] : i \in 1..Len(map)} : p.key = key).val
    ELSE Undefined

\* `keyField in item` without the isJsonObject guard.
hasKeyFieldUnguarded(item, keyField) ==
    IF item.k \notin {"object", "array", "function"} THEN "throw"
    ELSE IF item.k = "object" THEN (IF In(keyField, item) THEN "true" ELSE "false")
    ELSE IF keyField \in ObjectPrototypeKeys THEN "true" ELSE "false"

\* `isJsonObject(item) && keyField in item`: "true", "false", or "throw",
\* which is what `in` does when its right operand is not an object.
hasKeyField(item, keyField) ==
    IF ~isJsonObject(item) THEN "false"
    ELSE IF In(keyField, item) THEN "true" ELSE "false"

RECURSIVE keyMap(_, _)
\* The Map compareArraysByKey builds from one array.
keyMap(items, keyField) ==
    IF items = <<>> THEN <<>>
    ELSE LET init == keyMap(SubSeq(items, 1, Len(items) - 1), keyField)
             item == items[Len(items)]
             test == hasKeyField(item, keyField)
         IN  IF init = Thrown \/ test = "throw" THEN Thrown
             ELSE IF test = "true"
                  THEN mapSet(init, StringOf(Get(item, keyField)), item)
                  ELSE init

\* One iteration of compareArraysByKey's last loop.
compareArraysByKeyAt(leftMap, rightMap, s, path, key) ==
    LET leftItem == mapGet(leftMap, key)
        rightItem == mapGet(rightMap, key)
        newPath == Append(path, key)
    IN  IF ~Truthy(leftItem) /\ Truthy(rightItem)
        THEN <<createAddedEntry(newPath, rightItem)>>
        ELSE IF Truthy(leftItem) /\ ~Truthy(rightItem)
             THEN <<createRemovedEntry(newPath, leftItem)>>
             ELSE IF Truthy(leftItem) /\ Truthy(rightItem)
                  THEN computeDiff(leftItem, rightItem, s, newPath)
                  ELSE <<>>

compareArraysByKeyFrom(leftMap, rightMap, s, path, allKeys, i) ==
    IF i > Len(allKeys) THEN <<>>
    ELSE Concat(compareArraysByKeyAt(leftMap, rightMap, s, path, allKeys[i]),
                compareArraysByKeyFrom(leftMap, rightMap, s, path, allKeys, i + 1))

compareArraysByKey(l, r, s, path) ==
    IF ~Truthy(s.keyField) THEN compareArraysUnordered(l, r, s, path)
    ELSE LET leftMap == keyMap(l.v, s.keyField.v)
             rightMap == keyMap(r.v, s.keyField.v)
             allKeys == SetOf([i \in 1..Len(leftMap) |-> leftMap[i].key]
                              \o [i \in 1..Len(rightMap) |-> rightMap[i].key])
         IN  IF leftMap = Thrown \/ rightMap = Thrown THEN Thrown
             ELSE compareArraysByKeyFrom(leftMap, rightMap, s, path, allKeys, 1)

\* compareArrays choosing the keyed strategy on keyField alone.
compareArraysKeyFieldAlone(l, r, s, path) ==
    IF Truthy(s.keyField) THEN compareArraysByKey(l, r, s, path)
    ELSE IF s.ignoreArrayOrder THEN compareArraysUnordered(l, r, s, path)
    ELSE compareArraysOrdered(l, r, s, path)

compareArrays(l, r, s, path) ==
    IF s.ignoreArrayOrder /\ Truthy(s.keyField) THEN compareArraysByKey(l, r, s, path)
    ELSE IF s.ignoreArrayOrder THEN compareArraysUnordered(l, r, s, path)
    ELSE compareArraysOrdered(l, r, s, path)

computeDiff(l, r, s, path) ==
    IF bothNullish(l, r, s) THEN <<createUnchangedEntry(path, l, r)>>
    ELSE IF isJsonPrimitive(l) /\ isJsonPrimitive(r) THEN comparePrimitives(l, r, s, path)
    ELSE IF typeMismatch(l, r) THEN <<createModifiedEntry(path, l, r)>>
    ELSE IF isJsonObject(l) /\ isJsonObject(r) THEN compareObjects(l, r, s, path)
    ELSE IF isJsonArray(l) /\ isJsonArray(r) THEN compareArrays(l, r, s, path)
    ELSE fallbackModified(l, r, path)

----------------------------------------------------------------------------
(* The result aggregator *)

initialStats == [added |-> 0, removed |-> 0, modified |-> 0, unchanged |-> 0, total |-> 0]

\* The reducer without acc.total++.
countEntryTypeOnly(acc, entry) == [acc EXCEPT ![entry.type] = @ + 1]

\* The reducer of DiffResult.fromEntries: acc[entry.type]++; acc.total++.
countEntry(acc, entry) ==
    [acc EXCEPT ![entry.type] = @ + 1, !.total = @ + 1]

RECURSIVE reduceStats(_, _)
reduceStats(list, acc) ==
    IF list = <<>> THEN acc
    ELSE reduceStats(Tail(list), countEntry(acc, Head(list)))

\* The stats DiffResult.fromEntries derives.
fromEntries(list) == reduceStats(list, initialStats)

----------------------------------------------------------------------------
(* JSON texts.  A text is a sequence of tokens (punctuation, literals, the
   content of a string between two quote tokens, runs of white space)
   followed by `pad` bytes of trailing white space; every token is ASCII. *)

Text(body, pad) == [body |-> body, pad |-> pad]

\* The white space tokens: a blank, a line feed, and the three indentations.
WhiteSpace == {" ", "\n", "\t", "  ", "    "}

IsWhiteSpace(token) == token \in WhiteSpace

\* Maximum size for JSON input (10MB).
MAX_JSON_SIZE == 10 * 1024 * 1024

RECURSIVE TokenBytes(_)
TokenBytes(tokens) ==
    IF tokens = <<>> THEN 0 ELSE Len(Head(tokens)) + TokenBytes(Tail(tokens))

\* new Blob([input]).size
BlobSize(text) == TokenBytes(text.body) + text.pad

\* !input || input.trim().length === 0
isBlank(text) == \A i \in 1..Len(text.body) : IsWhiteSpace(text.body[i])

\* Result values.
ok(value) == [ok |-> TRUE, value |-> value]
err(error) == [ok |-> FALSE, error |-> error]

\* ValidationError values.
ValidationErrorParse(message) == [type |-> "parse", message |-> message]
ValidationErrorEmpty == [type |-> "empty", message |-> "Input is empty"]
ValidationErrorTooLarge(maxSize, actualSize) ==
    [type |-> "too-large", message |-> "Input is too large",
     details |-> [maxSize |-> maxSize, actualSize |-> actualSize]]

\* The exception JSON.parse raises.
SyntaxError(message) == [ok |-> FALSE, message |-> message]

\* The outcome of a successful parsing step: the value, and where to go on.
Parsed(value, next) == [ok |-> TRUE, value |-> value, next |-> next]

\* The position of the first token at or after pos that is not white space.
skipWhiteSpace(tokens, pos) ==
    LET rest == {i \in pos..Len(tokens) : ~IsWhiteSpace(tokens[i])}
    IN  IF rest = {} THEN Len(tokens) + 1 ELSE CHOOSE i \in rest : \A j \in rest : i <= j

\* The number tokens.
IsNumeral(token) == \E n \in 0..9 : ToString(n) = token
NumeralValue(token) == CHOOSE n \in 0..9 : ToString(n) = token

\* Object keys "0" to "MaxIndexKey" are read as array indices.
MaxIndexKey == 10

\* The keys an object lists first and in numeric order, whenever they were
\* created: the canonical numerals ("0", "2", "10").
IsArrayIndex(key) == \E n \in 0..MaxIndexKey : ToString(n) = key
ArrayIndexOf(key) == CHOOSE n \in 0..MaxIndexKey : ToString(n) = key

\* The own properties after one is created or overwritten: an existing key
\* keeps its place, a new array index goes among the indices in numeric
\* order, any other new key goes last.
defineProperty(props, key, val) ==
    LET goesBefore(q) == IsArrayIndex(q.key) /\ ArrayIndexOf(q.key) < ArrayIndexOf(key)
        staysAfter(q) == ~goesBefore(q)
    IN  IF \E i \in 1..Len(props) : props[i].key = key
        THEN [i \in 1..Len(props) |->
                IF props[i].key = key THEN Prop(key, val) ELSE props[i]]
        ELSE IF IsArrayIndex(key)
        THEN SelectSeq(props, goesBefore) \o <<Prop(key, val)>> \o SelectSeq(props, staysAfter)
        ELSE Append(props, Prop(key, val))

\* obj[key] = val on a plain object: the key "__proto__" reaches the setter
\* of Object.prototype and creates no own property.
assignProperty(props, key, val) ==
    IF key = "__proto__" THEN props ELSE defineProperty(props, key, val)

RECURSIVE JSONparseValue(_, _)
RECURSIVE JSONparseElements(_, _, _)
RECURSIVE JSONparseMembers(_, _, _)

\* JSON.parse: the value that starts at pos.
JSONparseValue(tokens, pos) ==
    LET p == skipWhiteSpace(tokens, pos)
    IN  IF p > Len(tokens) THEN SyntaxError("Unexpected end of JSON input")
        ELSE CASE tokens[p] = "null" -> Parsed(Null, p + 1)
               [] tokens[p] = "true" -> Parsed(Bool(TRUE), p + 1)
               [] tokens[p] = "false" -> Parsed(Bool(FALSE), p + 1)
               [] IsNumeral(tokens[p]) -> Parsed(Num(NumeralValue(tokens[p])), p + 1)
               [] tokens[p] = "\"" ->
                    IF p + 2 > Len(tokens) THEN SyntaxError("Unterminated string in JSON")
                    ELSE IF tokens[p + 2] = "\"" THEN Parsed(Str(tokens[p + 1]), p + 3)
                    ELSE SyntaxError("Unexpected token")
               [] tokens[p] = "[" ->
                    IF skipWhiteSpace(tokens, p + 1) <= Len(tokens)
                       /\ tokens[skipWhiteSpace(tokens, p + 1)] = "]"
                    THEN Parsed(Arr(<<>>), skipWhiteSpace(tokens, p + 1) + 1)
                    ELSE JSONparseElements(tokens, p + 1, <<>>)
               [] tokens[p] = "{" ->
                    IF skipWhiteSpace(tokens, p + 1) <= Len(tokens)
                       /\ tokens[skipWhiteSpace(tokens, p + 1)] = "}"
                    THEN Parsed(Obj(<<>>), skipWhiteSpace(tokens, p + 1) + 1)
                    ELSE JSONparseMembers(tokens, p + 1, <<>>)
               [] OTHER -> SyntaxError("Unexpected token")

\* JSON.parse inside an array: one element at pos, then "," or "]".
JSONparseElements(tokens, pos, items) ==
    LET element == JSONparseValue(tokens, pos)
        q == skipWhiteSpace(tokens, element.next)
    IN  IF ~element.ok THEN element
        ELSE IF q > Len(tokens) THEN SyntaxError("Unexpected end of JSON input")
        ELSE IF tokens[q] = ","
             THEN JSONparseElements(tokens, q + 1, Append(items, element.value))
        ELSE IF tokens[q] = "]" THEN Parsed(Arr(Append(items, element.value)), q + 1)
        ELSE SyntaxError("Unexpected token")

\* JSON.parse inside an object: one member at pos, then "," or "}"; each
\* member becomes an own property, "__proto__" included.
JSONparseMembers(tokens, pos, props) ==
    LET p == skipWhiteSpace(tokens, pos)
        c == skipWhiteSpace(tokens, p + 3)
        member == JSONparseValue(tokens, c + 1)
        q == skipWhiteSpace(tokens, member.next)
    IN  IF p > Len(tokens) THEN SyntaxError("Unexpected end of JSON input")
        ELSE IF tokens[p] # "\"" THEN SyntaxError("Unexpected token")
        ELSE IF p + 2 > Len(tokens) THEN SyntaxError("Unterminated string in JSON")
        ELSE IF tokens[p + 2] # "\"" THEN SyntaxError("Unexpected token")
        ELSE IF c > Len(tokens) THEN SyntaxError("Unexpected end of JSON input")
        ELSE IF tokens[c] # ":" THEN SyntaxError("Unexpected token")
        ELSE IF ~member.ok THEN member
        ELSE IF q > Len(tokens) THEN SyntaxError("Unexpected end of JSON input")
        ELSE IF tokens[q] = ","
             THEN JSONparseMembers(tokens, q + 1,
                                   defineProperty(props, tokens[p + 1], member.value))
        ELSE IF tokens[q] = "}"
             THEN Parsed(Obj(defineProperty(props, tokens[p + 1], member.value)), q + 1)
        ELSE SyntaxError("Unexpected token")

\* The end of JSON.parse: nothing but white space may follow the value.
JSONparseEnd(parsed, tokens) ==
    IF ~parsed.ok THEN parsed
    ELSE IF skipWhiteSpace(tokens, parsed.next) <= Len(tokens)
         THEN SyntaxError("Unexpected non-whitespace character after JSON")
         ELSE ok(parsed.value)

\* JSON.parse(input): the one value of the text, white space around it.
JSONparse(text) == JSONparseEnd(JSONparseValue(text.body, 1), text.body)

\* The try/catch around JSON.parse in parseJson.
parsedOrError(parsed) ==
    IF parsed.ok THEN ok(parsed.value) ELSE err(ValidationErrorParse(parsed.message))

\* parseJson with the size check ahead of the blank check.
parseJsonSizeFirst(text) ==
    IF BlobSize(text) > MAX_JSON_SIZE
    THEN err(ValidationErrorTooLarge(MAX_JSON_SIZE, BlobSize(text)))
    ELSE IF isBlank(text) THEN err(ValidationErrorEmpty)
    ELSE parsedOrError(JSONparse(text))

parseJson(text) ==
    IF isBlank(text) THEN err(ValidationErrorEmpty)
    ELSE IF BlobSize(text) > MAX_JSON_SIZE
    THEN err(ValidationErrorTooLarge(MAX_JSON_SIZE, BlobSize(text)))
    ELSE parsedOrError(JSONparse(text))

\* The try/catch around JSON.parse in validateJsonString: the value dropped.
validOrError(parsed) ==
    IF parsed.ok THEN ok(Undefined) ELSE err(ValidationErrorParse(parsed.message))

\* validateJsonString: parseJson's checks.
validateJsonString(text) ==
    IF isBlank(text) THEN err(ValidationErrorEmpty)
    ELSE IF BlobSize(text) > MAX_JSON_SIZE
    THEN err(ValidationErrorTooLarge(MAX_JSON_SIZE, BlobSize(text)))
    ELSE validOrError(JSONparse(text))

\* The document JsonDocument.fromString builds from what JSON.parse gave, or
\* the parse error; the document without its clock reading.
documentOrError(parsed, text, id) ==
    IF parsed.ok
    THEN ok([id |-> id, data |-> parsed.value, size |-> BlobSize(text)])
    ELSE err(ValidationErrorParse(parsed.message))

\* JsonDocument.fromString(input, id)
fromString(text, id) ==
    IF isBlank(text) THEN err(ValidationErrorEmpty)
    ELSE documentOrError(JSONparse(text), text, id)

----------------------------------------------------------------------------
(* The formatter *)

\* The indentation unit JSON.stringify derives from its `space` argument.
Gap(space) ==
    IF space.k = "string" THEN space.v
    ELSE IF space.v = 4 THEN "    " ELSE "  "

\* `depth` indentation units.
Indentation(gap, depth) == [i \in 1..depth |-> gap]

\* The properties JSON.stringify writes: those whose value has a JSON text.
Serializable(props) == SelectSeq(props, LAMBDA q : q.val.k \notin {"undefined", "function"})

RECURSIVE stringifyIndented(_, _, _)
RECURSIVE stringifyIndentedItems(_, _, _)
RECURSIVE stringifyIndentedProps(_, _, _)
\* JSON.stringify(value, null, space) for a non-empty gap, at nesting depth.
stringifyIndented(value, gap, depth) ==
    CASE value.k = "array" ->
            IF value.v = <<>> THEN <<"[", "]">>
            ELSE <<"[">> \o stringifyIndentedItems(value.v, gap, depth + 1)
                 \o <<"\n">> \o Indentation(gap, depth) \o <<"]">>
      [] value.k = "object" ->
            IF Serializable(value.v) = <<>> THEN <<"{", "}">>
            ELSE <<"{">> \o stringifyIndentedProps(Serializable(value.v), gap, depth + 1)
                 \o <<"\n">> \o Indentation(gap, depth) \o <<"}">>
      [] OTHER -> stringify(value)

stringifyIndentedItems(items, gap, depth) ==
    IF items = <<>> THEN <<>>
    ELSE LET one == <<"\n">> \o Indentation(gap, depth) \o
                    (IF items[1].k \in {"undefined", "function"} THEN <<"null">>
                     ELSE stringifyIndented(items[1], gap, depth))
         IN  IF Len(items) = 1 THEN one
             ELSE one \o <<",">> \o stringifyIndentedItems(Tail(items), gap, depth)

stringifyIndentedProps(props, gap, depth) ==
    IF props = <<>> THEN <<>>
    ELSE LET one == <<"\n">> \o Indentation(gap, depth)
                    \o <<"\"", props[1].key, "\"", ":", " ">>
                    \o stringifyIndented(props[1].val, gap, depth)
         IN  IF Len(props) = 1 THEN one
             ELSE one \o <<",">> \o stringifyIndentedProps(Tail(props), gap, depth)

\* The keys of the documents, in the order Array.prototype.sort puts them
\* (by UTF-16 code unit).
KeyOrder == <<"10", "2", "__proto__", "a", "id", "items", "toString", "v">>

\* Object.keys(value).sort()
sortedKeys(obj) == SelectSeq(KeyOrder, LAMBDA key : HasOwn(obj, key))

RECURSIVE sortObjectKeys(_)
RECURSIVE sortedProperties(_, _, _)
\* The loop of sortObjectKeys: sorted[key] = sortObjectKeys(value[key]) for
\* each key in turn.
sortedProperties(value, keys, sorted) ==
    IF keys = <<>> THEN sorted
    ELSE sortedProperties(value, Tail(keys),
                          assignProperty(sorted, Head(keys),
                                         sortObjectKeys(Get(value, Head(keys)))))

\* sortObjectKeys putting the elements of every array in reverse order.
sortObjectKeysReversingArrays(value) ==
    IF value = Null \/ typeof(value) # "object" THEN value
    ELSE IF isArray(value)
    THEN Arr([i \in 1..Len(value.v) |-> sortObjectKeys(value.v[Len(value.v) + 1 - i])])
    ELSE Obj(sortedProperties(value, sortedKeys(value), <<>>))

sortObjectKeys(value) ==
    IF value = Null \/ typeof(value) # "object" THEN value
    ELSE IF isArray(value) THEN Arr([i \in 1..Len(value.v) |-> sortObjectKeys(value.v[i])])
    ELSE Obj(sortedProperties(value, sortedKeys(value), <<>>))

\* Steps 2 and 3 of formatJson, and its catch clause.
formatParsed(parsed, formatSettings) ==
    IF parsed.ok
    THEN ok(Text(stringifyIndented(IF formatSettings.sortKeys
                                   THEN sortObjectKeys(parsed.value)
                                   ELSE parsed.value,
                                   Gap(formatSettings.indent), 0), 0))
    ELSE err(ValidationErrorParse(parsed.message))

\* formatJson(input, settings)
formatJson(text, formatSettings) == formatParsed(JSONparse(text), formatSettings)

RECURSIVE joinStrings(_, _)
\* Array.prototype.join on strings.
joinStrings(strings, sep) ==
    IF strings = <<>> THEN ""
    ELSE IF Len(strings) = 1 THEN strings[1]
    ELSE strings[1] \o sep \o joinStrings(Tail(strings), sep)

\* The operation with the entry's left value where its right value belongs.
patchOperationLeftValue(entry) ==
    LET path == "/" \o joinStrings(entry.path, "/")
    IN  CASE entry.type = "added" ->
                Obj(<<Prop("op", Str("add")), Prop("path", Str(path)),
                      Prop("value", entry.rightValue)>>)
          [] entry.type = "removed" ->
                Obj(<<Prop("op", Str("remove")), Prop("path", Str(path))>>)
          [] entry.type = "modified" ->
                Obj(<<Prop("op", Str("replace")), Prop("path", Str(path)),
                      Prop("value", entry.leftValue)>>)

\* The operation formatAsJsonPatch pushes for one entry that is not Unchanged.
patchOperation(entry) ==
    LET path == "/" \o joinStrings(entry.path, "/")
    IN  CASE entry.type = "added" ->
                Obj(<<Prop("op", Str("add")), Prop("path", Str(path)),
                      Prop("value", entry.rightValue)>>)
          [] entry.type = "removed" ->
                Obj(<<Prop("op", Str("remove")), Prop("path", Str(path))>>)
          [] entry.type = "modified" ->
                Obj(<<Prop("op", Str("replace")), Prop("path", Str(path)),
                      Prop("value", entry.rightValue)>>)

RECURSIVE patchOperations(_)
\* The loop of formatAsJsonPatch.
patchOperations(list) ==
    IF list = <<>> THEN <<>>
    ELSE IF Head(list).type = "unchanged" THEN patchOperations(Tail(list))
    ELSE <<patchOperation(Head(list))>> \o patchOperations(Tail(list))

formatAsJsonPatch(list) == stringifyIndented(Arr(patchOperations(list)), "  ", 0)

\* A DiffEntry as JSON.stringify sees it; an absent value has no property.
entryObject(entry) ==
    Obj(<<Prop("type", Str(entry.type)),
          Prop("path", Arr([i \in 1..Len(entry.path) |-> Str(entry.path[i])])),
          Prop("leftValue", entry.leftValue),
          Prop("rightValue", entry.rightValue)>>)

statsObject(st) ==
    Obj(<<Prop("added", Num(st.added)), Prop("removed", Num(st.removed)),
          Prop("modified", Num(st.modified)), Prop("unchanged", Num(st.unchanged)),
          Prop("total", Num(st.total))>>)

\* DiffResult.toObject(): id, entries, stats, metadata.  The random id and the
\* clock reading are the strings "id" and "createdAt".
toObject(list, st, s) ==
    Obj(<<Prop("id", Str("id")),
          Prop("entries", Arr([i \in 1..Len(list) |-> entryObject(list[i])])),
          Prop("stats", statsObject(st)),
          Prop("metadata",
               Obj(<<Prop("leftDocumentId", Str("left")),
                     Prop("rightDocumentId", Str("right")),
                     Prop("createdAt", Str("createdAt")),
                     Prop("settings",
                          Obj(<<Prop("ignoreArrayOrder", Bool(s.ignoreArrayOrder)),
                                Prop("treatNullAsUndefined", Bool(s.treatNullAsUndefined)),
                                Prop("keyField", s.keyField),
                                Prop("floatTolerance", s.floatTolerance)>>))>>))>>)

formatAsJson(diffResult) == stringifyIndented(diffResult, "  ", 0)

\* formatPath: "$" for the root, else "$." and the segments joined by ".",
\* an all-digit segment written [n].
formatPath(path) ==
    IF path = <<>> THEN "$"
    ELSE "$." \o joinStrings(
            [i \in 1..Len(path) |->
                IF IsNumeral(path[i]) THEN "[" \o path[i] \o "]"
                ELSE IF i = 1 THEN path[i]
                ELSE IF IsNumeral(path[i - 1]) THEN "." \o path[i]
                ELSE path[i]], ".")

\* escapeHtml, token by token: each of the five characters is a token.
escapeHtml(tokens) ==
    [i \in 1..Len(tokens) |->
        CASE tokens[i] = "&" -> "&amp;"
          [] tokens[i] = "<" -> "&lt;"
          [] tokens[i] = ">" -> "&gt;"
          [] tokens[i] = "\"" -> "&quot;"
          [] tokens[i] = "'" -> "&#039;"
          [] OTHER -> tokens[i]]

RECURSIVE joinLines(_)
\* lines.join('\n'), each line a sequence of tokens.
joinLines(lines) ==
    IF lines = <<>> THEN <<>>
    ELSE IF Len(lines) = 1 THEN lines[1]
    ELSE lines[1] \o <<"\n">> \o joinLines(Tail(lines))

\* The statistics lines of the Markdown report.
markdownStats(st) ==
    <<<<"# JSON Diff Report">>, <<>>, <<"## Statistics">>, <<>>,
      <<"- **Added**: ", ToString(st.added)>>,
      <<"- **Removed**: ", ToString(st.removed)>>,
      <<"- **Modified**: ", ToString(st.modified)>>,
      <<"- **Unchanged**: ", ToString(st.unchanged)>>,
      <<"- **Total**: ", ToString(st.total)>>, <<>>,
      <<"## Changes">>, <<>> >>

\* The grave accent of Markdown, a character the strings here cannot hold.
Grave == "<grave>"

\* The lines of the Markdown report for one entry (headings without their emoji).
markdownEntry(entry) ==
    LET pathStr == formatPath(entry.path)
        json(value) == IF value = Undefined THEN <<"undefined">>
                       ELSE stringifyIndented(value, "  ", 0)
    IN  CASE entry.type = "added" ->
                <<<<"### Added: ", Grave, pathStr, Grave>>, <<>>, <<Grave \o Grave \o Grave \o "json">>,
                  json(entry.rightValue), <<Grave \o Grave \o Grave>>, <<>> >>
          [] entry.type = "removed" ->
                <<<<"### Removed: ", Grave, pathStr, Grave>>, <<>>, <<Grave \o Grave \o Grave \o "json">>,
                  json(entry.leftValue), <<Grave \o Grave \o Grave>>, <<>> >>
          [] entry.type = "modified" ->
                <<<<"### Modified: ", Grave, pathStr, Grave>>, <<>>, <<"**Before:**">>,
                  <<Grave \o Grave \o Grave \o "json">>, json(entry.leftValue), <<Grave \o Grave \o Grave>>, <<>>,
                  <<"**After:**">>, <<Grave \o Grave \o Grave \o "json">>, json(entry.rightValue), <<Grave \o Grave \o Grave>>,
                  <<>> >>
          [] OTHER -> <<>>

formatAsMarkdown(list, st) ==
    joinLines(markdownStats(st) \o Flatten([i \in 1..Len(list) |-> markdownEntry(list[i])]))

\* The fixed opening lines of the HTML report.
HtmlHead ==
    <<"<!DOCTYPE html>",
      "<html lang=\"en\">",
      "<head>",
      "  <meta charset=\"UTF-8\">",
      "  <meta name=\"viewport\" content=\"width=device-width, initial-scale=1.0\">",
      "  <title>JSON Diff Report</title>",
      "  <style>",
      "    body { font-family: system-ui, sans-serif; max-width: 1200px; margin: 0 auto; padding: 20px; }",
      "    h1 { color: #333; }",
      "    .stats { background: #f5f5f5; padding: 15px; border-radius: 5px; margin: 20px 0; }",
      "    .stat { margin: 5px 0; }",
      "    .change { margin: 20px 0; padding: 15px; border-radius: 5px; }",
      "    .added { background: #e6ffe6; border-left: 4px solid #50fa7b; }",
      "    .removed { background: #ffe6e6; border-left: 4px solid #ff5555; }",
      "    .modified { background: #fff3e6; border-left: 4px solid #ffb86c; }",
      "    .path { font-family: monospace; font-weight: bold; }",
      "    pre { background: #282a36; color: #f8f8f2; padding: 10px; border-radius: 3px; overflow-x: auto; }",
      "  </style>",
      "</head>",
      "<body>",
      "  <h1>JSON Diff Report</h1>",
      "  <div class=\"stats\">",
      "    <h2>Statistics</h2>">>

\* The statistics lines of the HTML report.
htmlStats(st) ==
    <<<<"    <div class=\"stat\">Added: <strong>", ToString(st.added), "</strong></div>">>,
      <<"    <div class=\"stat\">Removed: <strong>", ToString(st.removed), "</strong></div>">>,
      <<"    <div class=\"stat\">Modified: <strong>", ToString(st.modified), "</strong></div>">>,
      <<"    <div class=\"stat\">Unchanged: <strong>", ToString(st.unchanged), "</strong></div>">>,
      <<"    <div class=\"stat\">Total: <strong>", ToString(st.total), "</strong></div>">>,
      <<"  </div>">>, <<"  <h2>Changes</h2>">> >>

\* The lines of the HTML report for one entry (headings without their emoji).
htmlEntry(entry) ==
    LET pathStr == escapeHtml(<<formatPath(entry.path)>>)
        pre(value) == <<"    <pre>">>
                      \o escapeHtml(IF value = Undefined THEN <<"undefined">>
                                    ELSE stringifyIndented(value, "  ", 0))
                      \o <<"</pre>">>
    IN  CASE entry.type = "added" ->
                <<<<"  <div class=\"change added\">">>,
                  <<"    <div class=\"path\">Added: ">> \o pathStr \o <<"</div>">>,
                  pre(entry.rightValue), <<"  </div>">> >>
          [] entry.type = "removed" ->
                <<<<"  <div class=\"change removed\">">>,
                  <<"    <div class=\"path\">Removed: ">> \o pathStr \o <<"</div>">>,
                  pre(entry.leftValue), <<"  </div>">> >>
          [] entry.type = "modified" ->
                <<<<"  <div class=\"change modified\">">>,
                  <<"    <div class=\"path\">Modified: ">> \o pathStr \o <<"</div>">>,
                  <<"    <strong>Before:</strong>">>, pre(entry.leftValue),
                  <<"    <strong>After:</strong>">>, pre(entry.rightValue),
                  <<"  </div>">> >>
          [] OTHER -> <<>>

formatAsHtml(list, st) ==
    joinLines([i \in 1..Len(HtmlHead) |-> <<HtmlHead[i]>>] \o htmlStats(st)
              \o Flatten([i \in 1..Len(list) |-> htmlEntry(list[i])])
              \o <<<<"</body>">>, <<"</html>">> >>)

\* The export targets formatDiff knows.
ExportFormats == {"json", "markdown", "html", "json-patch"}

\* What a call gave: the value it returned, or the Error it threw.
Returned(value) == [threw |-> FALSE, value |-> value]
ThrownError(message) == [threw |-> TRUE, message |-> message]

\* formatDiff(diffResult, format)
formatDiff(list, st, s, target) ==
    CASE target = "json" -> Returned(formatAsJson(toObject(list, st, s)))
      [] target = "markdown" -> Returned(formatAsMarkdown(list, st))
      [] target = "html" -> Returned(formatAsHtml(list, st))
      [] target = "json-patch" -> Returned(formatAsJsonPatch(list))
      [] OTHER -> ThrownError("Unsupported format: " \o target)

getFileExtension(target) ==
    CASE target = "json" -> "json"
      [] target = "markdown" -> "md"
      [] target = "html" -> "html"
      [] target = "json-patch" -> "json"
      [] OTHER -> "txt"

getMimeType(target) ==
    CASE target = "json" -> "application/json"
      [] target = "markdown" -> "text/markdown"
      [] target = "html" -> "text/html"
      [] target = "json-patch" -> "application/json-patch+json"
      [] OTHER -> "text/plain"

----------------------------------------------------------------------------
(* JsonPath.  A string is the sequence of its characters here, so that a
   segment may hold the characters the display form is made of. *)

Digits == {"0", "1", "2", "3", "4", "5", "6", "7", "8", "9"}

\* /^\d+$/.test(segment)
IsDigitString(chars) == chars # <<>> /\ \A i \in 1..Len(chars) : chars[i] \in Digits

RECURSIVE joinChars(_, _)
\* Array.prototype.join on strings that are character sequences.
joinChars(strings, sep) ==
    IF strings = <<>> THEN <<>>
    ELSE IF Len(strings) = 1 THEN strings[1]
    ELSE strings[1] \o sep \o joinChars(Tail(strings), sep)

\* JsonPath.toString()
JsonPathToString(segments) ==
    IF segments = <<>> THEN <<"$">>
    ELSE <<"$", ".">> \o joinChars(
            [index \in 1..Len(segments) |->
                IF IsDigitString(segments[index])
                THEN <<"[">> \o segments[index] \o <<"]">>
                ELSE IF index = 1 THEN segments[index]
                ELSE IF IsDigitString(segments[index - 1])
                THEN <<".">> \o segments[index]
                ELSE segments[index]], <<".">>)

RECURSIVE splitChars(_, _, _)
\* String.prototype.split on a character class: the pieces between the
\* separators, the empty ones included; `piece` is the one being read.
splitChars(chars, separators, piece) ==
    IF chars = <<>> THEN <<piece>>
    ELSE IF Head(chars) \in separators
    THEN <<piece>> \o splitChars(Tail(chars), separators, <<>>)
    ELSE splitChars(Tail(chars), separators, Append(piece, Head(chars)))

\* s.replace(/['"]/g, '')
removeQuotes(chars) == SelectSeq(chars, LAMBDA c : c \notin {"'", "\""})

\* The segments JsonPath.fromString builds from the normalized string.
segmentsOf(normalized) ==
    LET pieces == SelectSeq(splitChars(normalized, {".", "[", "]"}, <<>>),
                            LAMBDA piece : Len(piece) > 0)
    IN  [i \in 1..Len(pieces) |-> removeQuotes(pieces[i])]

\* JsonPath.fromString(path)
JsonPathFromString(path) ==
    IF path = <<"$">> \/ path = <<>> THEN <<>>
    ELSE IF Len(path) >= 2 /\ SubSeq(path, 1, 2) = <<"$", ".">>
    THEN segmentsOf(SubSeq(path, 3, Len(path)))
    ELSE segmentsOf(path)

----------------------------------------------------------------------------
(* The use cases *)

\* The text compareJson goes on with after formatJson, "{}" standing in for
\* a text that did not format.
formattedOrEmptyObject(formatResult, text) ==
    IF formatResult.ok THEN formatResult.value ELSE Text(<<"{", "}">>, 0)

\* The text compareJson goes on with after formatJson: the formatted text,
\* or the original one when formatting failed.
formattedOrOriginal(formatResult, text) ==
    IF formatResult.ok THEN formatResult.value ELSE text

\* compareJson's step 1 for one side.
textToParse(text, s) ==
    IF s.formatBeforeCompare
    THEN formattedOrOriginal(formatJson(text, s.formatSettings), text)
    ELSE text

\* compareJson's steps 4 and 5: the result built from computeDiff's list, or
\* the exception computeDiff raised.
diffResultOf(list, leftDocument, rightDocument, s) ==
    IF list = Thrown THEN ThrownError("TypeError")
    ELSE ok([leftDocument |-> leftDocument, rightDocument |-> rightDocument,
             diffResult |-> [entries |-> list, stats |-> fromEntries(list),
                             settings |-> s]])

\* compareJson's steps 2 to 5, on the outcomes of the two fromString calls.
compareDocuments(leftResult, rightResult, s) ==
    IF ~leftResult.ok
    THEN err([type |-> "LEFT_PARSE_ERROR", error |-> leftResult.error])
    ELSE IF ~rightResult.ok
    THEN err([type |-> "RIGHT_PARSE_ERROR", error |-> rightResult.error])
    ELSE diffResultOf(computeDiff(leftResult.value.data, rightResult.value.data, s, <<>>),
                      leftResult.value, rightResult.value, s)

\* compareJson(input): what it returns, or the exception computeDiff raised.
compareJson(l, r, s) ==
    compareDocuments(fromString(textToParse(l, s), "left"),
                     fromString(textToParse(r, s), "right"), s)

\* The file the export use case hands to the port, or the error its catch
\* clause returns without handing one over.
fileOrError(formatted, target) ==
    IF formatted.threw
    THEN err([type |-> "unknown", message |-> formatted.message])
    ELSE ok([content |-> formatted.value,
             extension |-> getFileExtension(target),
             mimeType |-> getMimeType(target)])

\* The use case createExportDiffUseCase returns, up to the call of the port.
exportDiff(list, st, s, target) == fileOrError(formatDiff(list, st, s, target), target)

----------------------------------------------------------------------------
(* The inputs *)

MaxNum == 2       \* numbers are 0..MaxNum
MaxLen == 2       \* arrays hold at most MaxLen elements
MaxEntries == 3   \* entry lists handed to fromEntries hold at most MaxEntries
MaxPathLen == 3   \* paths hold at most MaxPathLen segments

SeqsUpTo(S, n) == UNION {[1..m -> S] : m \in 0..n}

Nums == {Num(n) : n \in 0..MaxNum}
Scalars == {Null, Bool(TRUE), Bool(FALSE), Str("a")} \cup Nums

\* Arrays of scalars, duplicates and nulls included.
ArrayItems == {Null, Num(0), Num(1)}
FlatArrays == {Arr(a) : a \in SeqsUpTo(ArrayItems, MaxLen)}

\* Objects of scalars; "toString" is a key every object also inherits.
FlatObjects ==
    {Obj(<<>>)}
    \cup {Obj(<<Prop(key, x)>>) : key \in {"id", "v", "toString"}, x \in {Null} \cup Nums}
    \cup {Obj(<<Prop("id", x), Prop("v", y)>>) : x \in {Num(0), Num(1)}, y \in {Num(0), Num(1)}}

\* Arrays of objects that carry the key field "id".
Records ==
    {Obj(<<Prop("id", Num(0))>>), Obj(<<Prop("id", Num(1))>>),
     Obj(<<Prop("id", Num(0)), Prop("v", Num(1))>>)}
RecordArrays == {Arr(a) : a \in SeqsUpTo(Records, MaxLen)}

\* Containers inside containers.
NestedValues ==
    {Obj(<<Prop("v", c)>>) : c \in {Arr(<<>>), Arr(<<Num(0)>>), Obj(<<>>),
                                    Obj(<<Prop("id", Null)>>)}}
    \cup {Arr(<<c>>) : c \in {Arr(<<>>), Arr(<<Num(0)>>), Arr(<<Null>>)}}

Values == Scalars \cup FlatArrays \cup FlatObjects \cup RecordArrays \cup NestedValues

Tolerances == {Undefined} \cup {Num(t) : t \in 0..(MaxNum - 1)}
KeyFields == {Undefined, Str("id")}

AllSettings ==
    [ignoreArrayOrder : BOOLEAN, keyField : KeyFields,
     floatTolerance : Tolerances, treatNullAsUndefined : BOOLEAN]

DEFAULT_COMPARE_SETTINGS ==
    [ignoreArrayOrder |-> FALSE, keyField |-> Undefined,
     floatTolerance |-> Undefined, treatNullAsUndefined |-> FALSE]

----------------------------------------------------------------------------
(* The comparison: compareJson on two parsed documents *)

Init ==
    /\ left \in Values
    /\ right \in Values
    /\ settings \in AllSettings
    /\ entries = <<>>
    /\ stats = initialStats
    /\ pc = "input"
    /\ IoIdle

\* compareJson, from the two parsed documents on: computeDiff, then
\* DiffResult.fromEntries; an exception computeDiff raised leaves the caller
\* without a result.
Compare ==
    /\ pc = "input"
    /\ entries' = computeDiff(left, right, settings, <<>>)
    /\ IF entries' = Thrown
       THEN stats' = stats /\ pc' = "threw"
       ELSE stats' = fromEntries(entries') /\ pc' = "done"
    /\ UNCHANGED <<left, right, settings>>
    /\ UNCHANGED ioVars

Next == Compare

Spec == Init /\ [][Next]_vars

----------------------------------------------------------------------------
(* The aggregator on its own: DiffResult.fromEntries on any entry list *)

DiffTypes == {"added", "removed", "modified", "unchanged"}

\* Entries of every type, at the root and below it.
SampleEntries ==
    {createAddedEntry(p, Num(1)) : p \in {<<>>, <<"a">>}}
    \cup {createRemovedEntry(p, Num(0)) : p \in {<<>>, <<"a">>}}
    \cup {createModifiedEntry(p, Num(0), Num(1)) : p \in {<<>>, <<"a">>}}
    \cup {createUnchangedEntry(p, Null, Null) : p \in {<<>>, <<"a">>}}

InitStats ==
    /\ left = Null
    /\ right = Null
    /\ settings = DEFAULT_COMPARE_SETTINGS
    /\ entries = <<>>
    /\ stats = initialStats
    /\ pc = "input"
    /\ IoIdle

\* A caller building the list it will hand to fromEntries.
PushEntry ==
    /\ pc = "input"
    /\ Len(entries) < MaxEntries
    /\ \E e \in SampleEntries : entries' = Append(entries, e)
    /\ UNCHANGED <<left, right, settings, stats, pc>>
    /\ UNCHANGED ioVars

FromEntries ==
    /\ pc = "input"
    /\ stats' = fromEntries(entries)
    /\ pc' = "done"
    /\ UNCHANGED <<left, right, settings, entries>>
    /\ UNCHANGED ioVars

NextStats == PushEntry \/ FromEntries

SpecStats == InitStats /\ [][NextStats]_vars

----------------------------------------------------------------------------
(* The parser on its own: parseJson and validateJsonString on any text *)

\* The documents the texts are written from.
Documents ==
    {Null, Bool(TRUE), Num(0), Num(1), Str("a"), Arr(<<>>), Obj(<<>>),
     Arr(<<Num(0), Num(1)>>), Arr(<<Num(1), Num(0)>>),
     Obj(<<Prop("id", Num(0))>>),
     Obj(<<Prop("id", Num(0)), Prop("v", Num(1))>>),
     Obj(<<Prop("v", Num(1)), Prop("id", Num(0))>>),
     Obj(<<Prop("v", Obj(<<Prop("id", Null), Prop("a", Arr(<<Str("a")>>))>>))>>),
     Obj(<<Prop("items", Arr(<<Obj(<<Prop("id", Num(0))>>),
                               Obj(<<Prop("id", Num(1))>>)>>))>>),
     Obj(<<Prop("items", Arr(<<Obj(<<Prop("id", Num(1))>>),
                               Obj(<<Prop("id", Num(0))>>)>>))>>)}

\* Well-formed texts: each document written compactly and indented.
WellFormedBodies ==
    {stringify(d) : d \in Documents}
    \cup {stringifyIndented(d, "  ", 0) : d \in Documents}
    \cup {<<" ">> \o stringify(d) \o <<"\n">> : d \in {Num(1), Obj(<<>>)}}

\* Texts that are not JSON.
MalformedBodies ==
    {<<"{">>, <<"[", "1">>, <<"[", "1", ",", "]">>, <<"1", " ", "1">>, <<"nul">>,
     <<"{", "invalid", "}">>, <<"{", "\"", "id", "\"", "}">>, <<"\"", "a">>,
     <<"{", "\"", "id", "\"", ":", "0", ",", "}">>, <<"]">>}

\* Texts of white space only, the empty text first.
BlankBodies == {<<>>, <<" ">>, <<"\n", "\t">>}

\* The trailing white space that brings a text to its plain size, one byte
\* more, exactly the ceiling, and one byte over the ceiling.
PadsFor(body) ==
    {0, 1, MAX_JSON_SIZE - TokenBytes(body), MAX_JSON_SIZE - TokenBytes(body) + 1}

TextsOf(bodies) == UNION {{Text(b, pad) : pad \in PadsFor(b)} : b \in bodies}

Texts == TextsOf(WellFormedBodies \cup MalformedBodies \cup BlankBodies)

InitParser ==
    /\ left = Null
    /\ right = Null
    /\ settings = DEFAULT_COMPARE_SETTINGS
    /\ entries = <<>>
    /\ stats = initialStats
    /\ pc = "input"
    /\ input \in Texts
    /\ leftJson = None
    /\ rightJson = None
    /\ format = "json"
    /\ result = None
    /\ file = None
    /\ state = None

ParseJson ==
    /\ pc = "input"
    /\ result' = parseJson(input)
    /\ pc' = "parsed"
    /\ UNCHANGED <<left, right, settings, entries, stats>>
    /\ UNCHANGED <<input, leftJson, rightJson, format, file, state>>

ValidateJsonString ==
    /\ pc = "input"
    /\ result' = validateJsonString(input)
    /\ pc' = "validated"
    /\ UNCHANGED <<left, right, settings, entries, stats>>
    /\ UNCHANGED <<input, leftJson, rightJson, format, file, state>>

NextParser == ParseJson \/ ValidateJsonString

SpecParser == InitParser /\ [][NextParser]_vars

----------------------------------------------------------------------------
(* The comparison of two raw texts: the whole of compareJson *)

\* The texts handed to compareJson, each at its plain size and one byte
\* over the ceiling.
CompareBodies ==
    {stringify(d) : d \in {Num(1), Arr(<<Num(0), Num(1)>>), Arr(<<Num(1), Num(0)>>),
                           Obj(<<Prop("id", Num(0)), Prop("v", Num(1))>>),
                           Obj(<<Prop("v", Num(1)), Prop("id", Num(0))>>),
                           Obj(<<Prop("items", Arr(<<Obj(<<Prop("id", Num(0))>>),
                                                     Obj(<<Prop("id", Num(1))>>)>>))>>),
                           Obj(<<Prop("items", Arr(<<Obj(<<Prop("id", Num(1))>>),
                                                     Obj(<<Prop("id", Num(0))>>)>>))>>)}}
    \cup {<<"{", "invalid", "}">>, <<"[", "1">>, <<>>, <<" ">>}

CompareTexts ==
    {Text(b, 0) : b \in CompareBodies}
    \cup {Text(b, MAX_JSON_SIZE - TokenBytes(b) + 1) : b \in CompareBodies}

FormatSettings == [indent : {Num(2), Num(4), Str("\t")}, sortKeys : BOOLEAN]

DEFAULT_FORMAT_SETTINGS == [indent |-> Num(2), sortKeys |-> FALSE]

\* CompareSettings with the two fields of the format pre-pass.
CompareJsonSettings ==
    {[ignoreArrayOrder |-> o, keyField |-> IF k THEN Str("id") ELSE Undefined,
      floatTolerance |-> Undefined, treatNullAsUndefined |-> FALSE,
      formatBeforeCompare |-> f, formatSettings |-> fs] :
        o \in BOOLEAN, k \in BOOLEAN, f \in BOOLEAN, fs \in FormatSettings}

InitCompareJson ==
    /\ left = Null
    /\ right = Null
    /\ settings \in CompareJsonSettings
    /\ entries = <<>>
    /\ stats = initialStats
    /\ pc = "input"
    /\ input = None
    /\ leftJson \in CompareTexts
    /\ rightJson \in CompareTexts
    /\ format = "json"
    /\ result = None
    /\ file = None
    /\ state = None

\* compareJson: the format pre-pass, the two documents, the diff, the result.
CompareJson ==
    /\ pc = "input"
    /\ result' = compareJson(leftJson, rightJson, settings)
    /\ IF result' = ThrownError("TypeError")
       THEN pc' = "threw" /\ UNCHANGED <<left, right, entries, stats>>
       ELSE IF ~result'.ok
       THEN pc' = "failed" /\ UNCHANGED <<left, right, entries, stats>>
       ELSE /\ pc' = "done"
            /\ left' = result'.value.leftDocument.data
            /\ right' = result'.value.rightDocument.data
            /\ entries' = result'.value.diffResult.entries
            /\ stats' = result'.value.diffResult.stats
    /\ UNCHANGED <<settings, input, leftJson, rightJson, format, file, state>>

NextCompareJson == CompareJson

SpecCompareJson == InitCompareJson /\ [][NextCompareJson]_vars

----------------------------------------------------------------------------
(* The export of a diff result *)

\* The four export formats, and a target that is none of them.
ExportTargets == ExportFormats \cup {"xml"}

InitExport ==
    /\ left = Null
    /\ right = Null
    /\ settings = DEFAULT_COMPARE_SETTINGS
    /\ entries = <<>>
    /\ stats = initialStats
    /\ pc = "input"
    /\ input = None
    /\ leftJson = None
    /\ rightJson = None
    /\ format \in ExportTargets
    /\ result = None
    /\ file = None
    /\ state = None

\* formatDiff on the diff result of the list: the text, or the Error thrown.
FormatDiff ==
    /\ pc = "input"
    /\ stats' = fromEntries(entries)
    /\ result' = formatDiff(entries, stats', settings, format)
    /\ pc' = "formatted"
    /\ UNCHANGED <<left, right, settings, entries>>
    /\ UNCHANGED <<input, leftJson, rightJson, format, file, state>>

\* The export use case on the diff result of the list: it formats, names the
\* file, and hands it to the browser, which takes it or fails.
ExportDiff ==
    /\ pc = "input"
    /\ stats' = fromEntries(entries)
    /\ LET prepared == exportDiff(entries, stats', settings, format)
       IN  IF ~prepared.ok
           THEN result' = prepared /\ file' = file
           ELSE \E downloaded \in BOOLEAN :
                   IF downloaded
                   THEN result' = ok(Undefined) /\ file' = prepared.value
                   ELSE /\ result' = err([type |-> "file-system-error",
                                          message |-> "Failed to download file"])
                        /\ file' = file
    /\ pc' = "exported"
    /\ UNCHANGED <<left, right, settings, entries>>
    /\ UNCHANGED <<input, leftJson, rightJson, format, state>>

NextExport == PushEntry \/ FormatDiff \/ ExportDiff

SpecExport == InitExport /\ [][NextExport]_vars

----------------------------------------------------------------------------
(* The canonicalizer on its own: formatJson on any text, and on its output *)

\* Documents whose keys are not written in sorted order, at the root, inside
\* an object and inside an array; keys that are array indices; the key
\* "__proto__".
UnsortedDocuments ==
    {Obj(<<Prop("v", Num(1)), Prop("a", Arr(<<Num(1), Num(0)>>))>>),
     Arr(<<Obj(<<Prop("v", Num(1)), Prop("a", Num(0))>>), Num(0)>>),
     Obj(<<Prop("id", Obj(<<Prop("v", Null), Prop("a", Str("a"))>>))>>),
     Obj(<<Prop("2", Num(0)), Prop("10", Num(1))>>),
     Obj(<<Prop("10", Num(1)), Prop("2", Num(0))>>),
     Obj(<<Prop("a", Num(0)), Prop("__proto__", Num(1))>>)}

\* The texts handed to formatJson.
FormatterTexts == Texts \cup {Text(stringify(d), 0) : d \in UnsortedDocuments}

\* The settings of a call of formatJson.
FormatterSettings ==
    {[ignoreArrayOrder |-> FALSE, keyField |-> Undefined,
      floatTolerance |-> Undefined, treatNullAsUndefined |-> FALSE,
      formatBeforeCompare |-> TRUE, formatSettings |-> fs] : fs \in FormatSettings}

InitFormatter ==
    /\ left = Null
    /\ right = Null
    /\ settings \in FormatterSettings
    /\ entries = <<>>
    /\ stats = initialStats
    /\ pc = "input"
    /\ input \in FormatterTexts
    /\ leftJson = None
    /\ rightJson = None
    /\ format = "json"
    /\ result = None
    /\ file = None
    /\ state = None

FormatJson ==
    /\ pc = "input"
    /\ result' = formatJson(input, settings.formatSettings)
    /\ pc' = "formatted"
    /\ UNCHANGED <<left, right, settings, entries, stats>>
    /\ UNCHANGED <<input, leftJson, rightJson, format, file, state>>

\* A caller handing formatJson its own output, under the same settings.
FormatJsonAgain ==
    /\ pc = "formatted"
    /\ result.ok
    /\ input' = result.value
    /\ result' = formatJson(result.value, settings.formatSettings)
    /\ pc' = "reformatted"
    /\ UNCHANGED <<left, right, settings, entries, stats>>
    /\ UNCHANGED <<leftJson, rightJson, format, file, state>>

NextFormatter == FormatJson \/ FormatJsonAgain

SpecFormatter == InitFormatter /\ [][NextFormatter]_vars

----------------------------------------------------------------------------
(* The useDiff hook and its reducer *)

\* DEFAULT_COMPARE_SETTINGS with the two fields of the format pre-pass.
initialSettings ==
    [ignoreArrayOrder |-> FALSE, keyField |-> Undefined,
     floatTolerance |-> Undefined, treatNullAsUndefined |-> FALSE,
     formatBeforeCompare |-> FALSE, formatSettings |-> DEFAULT_FORMAT_SETTINGS]

\* Initial application state.
initialState ==
    [leftInput |-> Text(<<>>, 0), rightInput |-> Text(<<>>, 0),
     leftDocument |-> Null, rightDocument |-> Null, diffResult |-> Null,
     settings |-> initialSettings, isComparing |-> FALSE, error |-> Null]

Action(type, payload) == [type |-> type, payload |-> payload]

\* { ...state.settings, ...action.payload }
mergeSettings(current, payload) ==
    [field \in DOMAIN current |->
        IF field \in DOMAIN payload THEN payload[field] ELSE current[field]]

\* appReducer(state, action)
appReducer(st, action) ==
    CASE action.type = "SET_LEFT_INPUT" ->
            [st EXCEPT !.leftInput = action.payload, !.error = Null]
      [] action.type = "SET_RIGHT_INPUT" ->
            [st EXCEPT !.rightInput = action.payload, !.error = Null]
      [] action.type = "SET_SETTINGS" ->
            [st EXCEPT !.settings = mergeSettings(st.settings, action.payload)]
      [] action.type = "COMPARE_START" ->
            [st EXCEPT !.isComparing = TRUE, !.error = Null]
      [] action.type = "COMPARE_SUCCESS" ->
            [st EXCEPT !.leftDocument = action.payload.leftDocument,
                       !.rightDocument = action.payload.rightDocument,
                       !.diffResult = action.payload.diffResult,
                       !.isComparing = FALSE, !.error = Null]
      [] action.type = "COMPARE_ERROR" ->
            [st EXCEPT !.isComparing = FALSE, !.error = action.payload]
      [] action.type = "CLEAR" ->
            [initialState EXCEPT !.settings = st.settings]
      [] action.type = "CLEAR_ERROR" ->
            [st EXCEPT !.error = Null]
      [] OTHER -> st

\* compare: the dispatch of an input the formatter could write anew.
dispatchFormatted(st, type, formatResult) ==
    IF formatResult.ok THEN appReducer(st, Action(type, formatResult.value)) ELSE st

\* compare: the dispatch that ends it; none when compareJson threw.
dispatchCompared(st, compared) ==
    IF "threw" \in DOMAIN compared THEN st
    ELSE IF compared.ok THEN appReducer(st, Action("COMPARE_SUCCESS", compared.value))
    ELSE appReducer(st, Action("COMPARE_ERROR", compared.error))

\* compare: what compareJson gives on the two texts, formatted where the
\* formatter could.
compareFormatted(st, leftFormatResult, rightFormatResult) ==
    compareJson(formattedOrOriginal(leftFormatResult, st.leftInput),
                formattedOrOriginal(rightFormatResult, st.rightInput),
                st.settings)

\* compare: the state after all its dispatches.
stateAfterCompare(st, leftFormatResult, rightFormatResult, compared) ==
    dispatchCompared(
        dispatchFormatted(
            dispatchFormatted(appReducer(st, Action("COMPARE_START", Null)),
                              "SET_LEFT_INPUT", leftFormatResult),
            "SET_RIGHT_INPUT", rightFormatResult),
        compared)

\* The texts typed into the two inputs.
HookTexts ==
    {Text(<<>>, 0), Text(<<"0">>, 0), Text(<<"1">>, 0),
     Text(<<"{", "invalid", "}">>, 0),
     Text(stringify(Obj(<<Prop("id", Num(0))>>)), 0)}

InitHook ==
    /\ left = Null
    /\ right = Null
    /\ settings = DEFAULT_COMPARE_SETTINGS
    /\ entries = <<>>
    /\ stats = initialStats
    /\ pc = "input"
    /\ input = None
    /\ leftJson = None
    /\ rightJson = None
    /\ format = "json"
    /\ result = None
    /\ file = None
    /\ state = initialState

HookUnchanged ==
    UNCHANGED <<left, right, settings, entries, stats, input, leftJson, rightJson,
                format, file>>

SetLeftInput ==
    /\ \E text \in HookTexts :
          state' = appReducer(state, Action("SET_LEFT_INPUT", text))
    /\ pc' = "input"
    /\ UNCHANGED result
    /\ HookUnchanged

SetRightInput ==
    /\ \E text \in HookTexts :
          state' = appReducer(state, Action("SET_RIGHT_INPUT", text))
    /\ pc' = "input"
    /\ UNCHANGED result
    /\ HookUnchanged

\* compare(): COMPARE_START, the two formatJson calls and their dispatches,
\* compareJson, and COMPARE_SUCCESS or COMPARE_ERROR.
HookCompare ==
    /\ result' = compareFormatted(state,
                     formatJson(state.leftInput, state.settings.formatSettings),
                     formatJson(state.rightInput, state.settings.formatSettings))
    /\ state' = stateAfterCompare(state,
                     formatJson(state.leftInput, state.settings.formatSettings),
                     formatJson(state.rightInput, state.settings.formatSettings),
                     result')
    /\ pc' = IF "threw" \in DOMAIN result' THEN "threw"
             ELSE IF result'.ok THEN "done" ELSE "failed"
    /\ HookUnchanged

HookClear ==
    /\ state' = appReducer(state, Action("CLEAR", Null))
    /\ pc' = "input"
    /\ UNCHANGED result
    /\ HookUnchanged

HookClearError ==
    /\ state' = appReducer(state, Action("CLEAR_ERROR", Null))
    /\ pc' = "input"
    /\ UNCHANGED result
    /\ HookUnchanged

NextHook == SetLeftInput \/ SetRightInput \/ HookCompare \/ HookClear \/ HookClearError

SpecHook == InitHook /\ [][NextHook]_vars

----------------------------------------------------------------------------
(* Paths: JsonPath.toString, and JsonPath.fromString on what it gave *)

\* Segments: keys, indices, a key with a dot, a key in quotes, the empty key.
PathSegments ==
    {<<"a">>, <<"i", "d">>, <<"0">>, <<"1", "0">>, <<"a", ".", "b">>,
     <<"'", "a", "'">>, <<>>}

Paths == SeqsUpTo(PathSegments, MaxPathLen)

InitPath ==
    /\ left = Null
    /\ right = Null
    /\ settings = DEFAULT_COMPARE_SETTINGS
    /\ entries = <<>>
    /\ stats = initialStats
    /\ pc = "input"
    /\ input \in Paths
    /\ leftJson = None
    /\ rightJson = None
    /\ format = "json"
    /\ result = None
    /\ file = None
    /\ state = None

\* path.toString()
ToDisplayString ==
    /\ pc = "input"
    /\ result' = JsonPathToString(input)
    /\ pc' = "displayed"
    /\ UNCHANGED <<left, right, settings, entries, stats>>
    /\ UNCHANGED <<input, leftJson, rightJson, format, file, state>>

\* JsonPath.fromString on the display string.
FromDisplayString ==
    /\ pc = "displayed"
    /\ result' = JsonPathFromString(result)
    /\ pc' = "reparsed"
    /\ UNCHANGED <<left, right, settings, entries, stats>>
    /\ UNCHANGED <<input, leftJson, rightJson, format, file, state>>

NextPath == ToDisplayString \/ FromDisplayString

SpecPath == InitPath /\ [][NextPath]_vars

----------------------------------------------------------------------------
(* The diff of two documents without arrays, formatted as a JSON Patch *)

\* Documents whose root is an object and that hold objects and primitives
\* only; "id/v" is a key with a slash, "toString" a key every object inherits.
PatchDocuments ==
    {Obj(<<>>),
     Obj(<<Prop("id", Num(0))>>),
     Obj(<<Prop("id", Num(1))>>),
     Obj(<<Prop("v", Null)>>),
     Obj(<<Prop("id", Num(0)), Prop("v", Str("a"))>>),
     Obj(<<Prop("v", Str("a")), Prop("id", Num(0))>>),
     Obj(<<Prop("id", Obj(<<>>))>>),
     Obj(<<Prop("id", Obj(<<Prop("v", Num(0))>>))>>),
     Obj(<<Prop("id", Obj(<<Prop("v", Num(1))>>))>>),
     Obj(<<Prop("id", Obj(<<Prop("v", Obj(<<Prop("id", Bool(TRUE))>>))>>))>>),
     Obj(<<Prop("id/v", Num(0))>>),
     Obj(<<Prop("id", Obj(<<Prop("v", Num(0))>>)), Prop("id/v", Num(1))>>),
     Obj(<<Prop("toString", Num(0))>>)}

InitPatch ==
    /\ left \in PatchDocuments
    /\ right \in PatchDocuments
    /\ settings = DEFAULT_COMPARE_SETTINGS
    /\ entries = <<>>
    /\ stats = initialStats
    /\ pc = "input"
    /\ input = None
    /\ leftJson = None
    /\ rightJson = None
    /\ format = "json-patch"
    /\ result = None
    /\ file = None
    /\ state = None

\* formatDiff on the diff result a comparison gave.
FormatComputedDiff ==
    /\ pc = "done"
    /\ result' = formatDiff(entries, stats, settings, format)
    /\ pc' = "formatted"
    /\ UNCHANGED <<left, right, settings, entries, stats>>
    /\ UNCHANGED <<input, leftJson, rightJson, format, file, state>>

NextPatch == Compare \/ FormatComputedDiff

SpecPatch == InitPatch /\ [][NextPatch]_vars

----------------------------------------------------------------------------
(* Vocabulary of the properties *)

Done == pc = "done"

Indices(list) == 1..Len(list)

CountOfType(list, t) == Cardinality({i \in Indices(list) : list[i].type = t})

Occurrences(list, x) == Cardinality({i \in Indices(list) : list[i] = x})

\* The two lists hold the same entries the same number of times.
SameEntries(a, b) ==
    /\ Len(a) = Len(b)
    /\ \A i \in Indices(a) : Occurrences(a, a[i]) = Occurrences(b, a[i])

\* The JSON kind of a value.
KindOf(value) == value.k

IsJsonValue(value) ==
    value.k \in {"null", "boolean", "number", "string", "array", "object"}

RECURSIVE LeafPaths(_, _)
\* The primitive leaves of a value, each with its path.
LeafPaths(value, path) ==
    IF value.k = "array"
    THEN UNION {LeafPaths(value.v[i], Append(path, ToString(i - 1))) : i \in 1..Len(value.v)}
    ELSE IF value.k = "object"
    THEN UNION {LeafPaths(value.v[i].val, Append(path, value.v[i].key)) : i \in 1..Len(value.v)}
    ELSE {[path |-> path, value |-> value]}

RECURSIVE Sum(_)
Sum(numbers) == IF numbers = <<>> THEN 0 ELSE Head(numbers) + Sum(Tail(numbers))

RECURSIVE ContainerCount(_)
\* The number of object and array nodes of a value.
ContainerCount(value) ==
    IF value.k = "array"
    THEN 1 + Sum([i \in 1..Len(value.v) |-> ContainerCount(value.v[i])])
    ELSE IF value.k = "object"
    THEN 1 + Sum([i \in 1..Len(value.v) |-> ContainerCount(value.v[i].val)])
    ELSE 0

Reflexive == Done /\ left = right /\ settings = DEFAULT_COMPARE_SETTINGS

----------------------------------------------------------------------------
(* C1: reflexivity *)

\* C1, as stated: comparing a value with itself under the default settings
\* yields only Unchanged entries, one per leaf and one per container node.
C1_ReflexivityWithContainers ==
    Reflexive =>
        /\ \A i \in Indices(entries) : entries[i].type = "unchanged"
        /\ Len(entries) = Cardinality(LeafPaths(left, <<>>)) + ContainerCount(left)

\* C1, amended: comparing a value with itself under the default settings
\* yields only Unchanged entries, exactly one per primitive leaf, at the
\* leaf's path and carrying the leaf on both sides; container nodes get no
\* entry of their own.
C1_Reflexivity ==
    Reflexive =>
        /\ \A i \in Indices(entries) :
              /\ entries[i].type = "unchanged"
              /\ entries[i].leftValue = entries[i].rightValue
        /\ Len(entries) = Cardinality(LeafPaths(left, <<>>))
        /\ {[path |-> entries[i].path, value |-> entries[i].leftValue] :
                i \in Indices(entries)} = LeafPaths(left, <<>>)

C1_Witness ==
    /\ Reflexive
    /\ Len(entries) >= 2
    /\ \E i \in Indices(entries) : Len(entries[i].path) = 2

----------------------------------------------------------------------------
(* C2: stats consistency *)

\* C2: the stats fromEntries derives count the list: total is its length,
\* each per-type count is the number of entries of that type, and the four
\* counts add up to total.
C2_StatsConsistency ==
    Done =>
        /\ stats.total = Len(entries)
        /\ \A t \in DiffTypes : stats[t] = CountOfType(entries, t)
        /\ stats.added + stats.removed + stats.modified + stats.unchanged = stats.total

C2_Witness ==
    /\ Done
    /\ stats.added >= 1
    /\ stats.removed >= 1
    /\ stats.unchanged >= 1

----------------------------------------------------------------------------
(* C3: entry shape *)

HasLeft(e) == e.leftValue # Undefined
HasRight(e) == e.rightValue # Undefined

\* C3: every entry has the shape of its type: Added carries a rightValue and
\* no leftValue, Removed a leftValue and no rightValue, Modified and
\* Unchanged carry both.
C3_EntryShape ==
    Done =>
        \A i \in Indices(entries) :
            LET e == entries[i]
            IN  /\ e.type \in DiffTypes
                /\ e.type = "added" => ~HasLeft(e) /\ HasRight(e)
                /\ e.type = "removed" => HasLeft(e) /\ ~HasRight(e)
                /\ e.type \in {"modified", "unchanged"} => HasLeft(e) /\ HasRight(e)

C3_Witness ==
    /\ Done
    /\ settings.ignoreArrayOrder
    /\ \E i \in Indices(entries) : entries[i].type = "added"
    /\ \E i \in Indices(entries) : entries[i].type = "removed"
    /\ \E i \in Indices(entries) : entries[i].type = "unchanged"

----------------------------------------------------------------------------
(* C4: swap symmetry *)

\* An entry seen from the other side: Added and Removed exchanged, the two
\* values exchanged.
Mirror(e) ==
    [type |-> CASE e.type = "added" -> "removed"
                [] e.type = "removed" -> "added"
                [] OTHER -> e.type,
     path |-> e.path, leftValue |-> e.rightValue, rightValue |-> e.leftValue]

\* As Mirror, but an Unchanged entry is kept as it is.
MirrorChanges(e) == IF e.type = "unchanged" THEN e ELSE Mirror(e)

UsesUnorderedStrategy(s) == s.ignoreArrayOrder /\ ~Truthy(s.keyField)

\* C4, as stated: under any settings, the diff of the swapped pair is the
\* diff of the pair with Added and Removed exchanged, the values of every
\* Modified entry exchanged, and the Unchanged entries identical.
C4_SwapSymmetryAllSettings ==
    Done =>
        SameEntries(computeDiff(right, left, settings, <<>>),
                    [i \in Indices(entries) |-> MirrorChanges(entries[i])])

\* C4, amended: under settings that do not select the unordered strategy,
\* the diff of the swapped pair is the diff of the pair with Added and
\* Removed exchanged and the two values exchanged on every Modified and every
\* Unchanged entry.
C4_SwapSymmetry ==
    (Done /\ ~UsesUnorderedStrategy(settings)) =>
        SameEntries(computeDiff(right, left, settings, <<>>),
                    [i \in Indices(entries) |-> Mirror(entries[i])])

C4_Witness ==
    /\ Done
    /\ ~UsesUnorderedStrategy(settings)
    /\ \E i \in Indices(entries) : entries[i].type = "added"
    /\ \E i \in Indices(entries) :
          entries[i].type = "unchanged" /\ entries[i].leftValue # entries[i].rightValue

----------------------------------------------------------------------------
(* C5: totality *)

\* The largest of a sequence of naturals, 0 for the empty one.
MaxOf(numbers) ==
    IF numbers = <<>> THEN 0
    ELSE CHOOSE d \in {numbers[i] : i \in 1..Len(numbers)} :
           \A i \in 1..Len(numbers) : numbers[i] <= d

RECURSIVE Depth(_)
\* The nesting depth of a value: 0 for a primitive, 1 for a flat container.
Depth(value) ==
    IF value.k = "array"
    THEN 1 + MaxOf([i \in 1..Len(value.v) |-> Depth(value.v[i])])
    ELSE IF value.k = "object"
    THEN 1 + MaxOf([i \in 1..Len(value.v) |-> Depth(value.v[i].val)])
    ELSE 0

Min(a, b) == IF a <= b THEN a ELSE b

----------------------------------------------------------------------------
(* C6: the object rule *)

OwnValue(obj, key) ==
    (CHOOSE p \in {obj.v[i] : i \in 1..Len(obj.v)} : p.key = key).val

\* What the object rule prescribes for one key of the union of the key sets.
ObjectRuleFor(l, r, s, key) ==
    IF ~HasOwn(l, key)
    THEN <<[type |-> "added", path |-> <<key>>, leftValue |-> Undefined,
            rightValue |-> OwnValue(r, key)]>>
    ELSE IF ~HasOwn(r, key)
    THEN <<[type |-> "removed", path |-> <<key>>, leftValue |-> OwnValue(l, key),
            rightValue |-> Undefined]>>
    ELSE computeDiff(OwnValue(l, key), OwnValue(r, key), s, <<key>>)

UnionKeys(l, r) == SetOf(ObjectKeys(l) \o ObjectKeys(r))

\* C6: for two objects the entries are, for each key of the union of the two
\* key sets (whatever the key's text): one Added entry carrying right[key]
\* when only right has the key, one Removed entry carrying left[key] when
\* only left has it, the recursive diff of the two values when both have it;
\* and nothing else.
C6_ObjectRule ==
    (Done /\ isJsonObject(left) /\ isJsonObject(right)) =>
        SameEntries(entries,
            Flatten([i \in 1..Len(UnionKeys(left, right)) |->
                       ObjectRuleFor(left, right, settings, UnionKeys(left, right)[i])]))

----------------------------------------------------------------------------
(* C7: the ordered array rule *)

OrderedRuleAt(l, r, s, i) ==
    IF i > Len(l.v)
    THEN <<[type |-> "added", path |-> <<ToString(i - 1)>>, leftValue |-> Undefined,
            rightValue |-> r.v[i]]>>
    ELSE IF i > Len(r.v)
    THEN <<[type |-> "removed", path |-> <<ToString(i - 1)>>, leftValue |-> l.v[i],
            rightValue |-> Undefined]>>
    ELSE computeDiff(l.v[i], r.v[i], s, <<ToString(i - 1)>>)

OrderedStrategy == ~settings.ignoreArrayOrder

\* C7: with the ordered strategy two arrays are compared index by index, for
\* i = 0 .. max(len(left), len(right)) - 1 in ascending order: one Added
\* entry carrying right[i] past the end of left, one Removed entry carrying
\* left[i] past the end of right, the recursive diff of left[i] and right[i]
\* where both have the index.
C7_OrderedArrayRule ==
    (Done /\ isJsonArray(left) /\ isJsonArray(right) /\ OrderedStrategy) =>
        entries = Flatten([i \in 1..Max(Len(left.v), Len(right.v)) |->
                             OrderedRuleAt(left, right, settings, i)])

C7_Witness ==
    /\ Done /\ OrderedStrategy
    /\ isJsonArray(left) /\ isJsonArray(right)
    /\ Len(left.v) > Len(right.v)
    /\ Len(right.v) > 0
    /\ \E i \in Indices(entries) : entries[i].type = "removed"
    /\ \E i \in Indices(entries) : Len(entries[i].path) = 2

----------------------------------------------------------------------------
(* C8: the type mismatch rule *)

IsPrefix(p, q) == Len(p) <= Len(q) /\ SubSeq(q, 1, Len(p)) = p

\* The entries at a path or below it, in order.
EntriesUnder(list, p) == SelectSeq(list, LAMBDA e : IsPrefix(p, e.path))

\* C8: two values of different JSON kind give exactly one Modified entry, at
\* the current path and carrying both values, under any settings: at the
\* root, and at every key two objects share.
C8_TypeMismatchRule ==
    Done =>
        /\ KindOf(left) # KindOf(right) =>
              entries = <<[type |-> "modified", path |-> <<>>, leftValue |-> left,
                           rightValue |-> right]>>
        /\ (isJsonObject(left) /\ isJsonObject(right)) =>
              \A i \in 1..Len(left.v) :
                  LET key == left.v[i].key
                      lv == left.v[i].val
                  IN  (HasOwn(right, key) /\ KindOf(lv) # KindOf(OwnValue(right, key))) =>
                          EntriesUnder(entries, <<key>>) =
                              <<[type |-> "modified", path |-> <<key>>, leftValue |-> lv,
                                 rightValue |-> OwnValue(right, key)]>>

\* null against a non-empty object: alike for typeof and Array.isArray.
C8_Witness ==
    /\ Done
    /\ left = Null
    /\ isJsonObject(right) /\ right.v # <<>>
    /\ Len(entries) = 1

----------------------------------------------------------------------------
(* C9: the primitive rule *)

WithinTolerance(l, r, s) ==
    /\ l.k = "number" /\ r.k = "number"
    /\ s.floatTolerance # Undefined
    /\ Abs(l.v - r.v) <= s.floatTolerance.v

IsJsonPrimitiveKind(value) == value.k \in {"null", "boolean", "number", "string"}

\* C9: two primitives give exactly one entry, at the path and carrying both
\* values: Unchanged if they are equal, or if both are numbers, floatTolerance
\* is set and |left - right| <= floatTolerance; Modified otherwise.
C9_PrimitiveRule ==
    (Done /\ IsJsonPrimitiveKind(left) /\ IsJsonPrimitiveKind(right)) =>
        entries = <<[type |-> IF left = right \/ WithinTolerance(left, right, settings)
                              THEN "unchanged" ELSE "modified",
                     path |-> <<>>, leftValue |-> left, rightValue |-> right]>>

\* Two different numbers exactly floatTolerance apart.
C9_Witness ==
    /\ Done
    /\ left.k = "number" /\ right.k = "number"
    /\ settings.floatTolerance # Undefined
    /\ left # right
    /\ Abs(left.v - right.v) = settings.floatTolerance.v
    /\ entries[1].type = "unchanged"

----------------------------------------------------------------------------
(* C10: null/undefined equivalence *)

AbsentOrNull(obj, key) == ~HasOwn(obj, key) \/ OwnValue(obj, key) = Null

\* C10: with treatNullAsUndefined set, a key at which both objects are
\* absent-or-null (null on both sides, or null on one and missing on the
\* other) gets exactly one entry, and that entry is Unchanged.
C10_NullUndefinedEquivalence ==
    (Done /\ settings.treatNullAsUndefined /\ isJsonObject(left) /\ isJsonObject(right)) =>
        \A i \in 1..Len(UnionKeys(left, right)) :
            LET key == UnionKeys(left, right)[i]
            IN  (AbsentOrNull(left, key) /\ AbsentOrNull(right, key)) =>
                    /\ Len(EntriesUnder(entries, <<key>>)) = 1
                    /\ EntriesUnder(entries, <<key>>)[1].type = "unchanged"

----------------------------------------------------------------------------
(* C11: array strategy dispatch *)

BothArrays == Done /\ isJsonArray(left) /\ isJsonArray(right)

\* C11, as stated: two arrays are compared with the keyed strategy whenever
\* keyField is set, with the unordered strategy when ignoreArrayOrder is set
\* and keyField is not, and with the ordered strategy otherwise.
C11_KeyedWheneverKeyField ==
    BothArrays =>
        entries = IF Truthy(settings.keyField)
                  THEN compareArraysByKey(left, right, settings, <<>>)
                  ELSE IF settings.ignoreArrayOrder
                       THEN compareArraysUnordered(left, right, settings, <<>>)
                       ELSE compareArraysOrdered(left, right, settings, <<>>)

\* C11, amended: two arrays are compared with the keyed strategy when both
\* ignoreArrayOrder and keyField are set, with the unordered strategy when
\* ignoreArrayOrder is set and keyField is not, and with the ordered strategy
\* whenever ignoreArrayOrder is not set, keyField or no keyField.
C11_StrategyDispatch ==
    BothArrays =>
        entries = IF settings.ignoreArrayOrder /\ Truthy(settings.keyField)
                  THEN compareArraysByKey(left, right, settings, <<>>)
                  ELSE IF settings.ignoreArrayOrder
                       THEN compareArraysUnordered(left, right, settings, <<>>)
                       ELSE compareArraysOrdered(left, right, settings, <<>>)

\* keyField without ignoreArrayOrder, on arrays the three strategies tell apart.
C11_Witness ==
    /\ BothArrays
    /\ ~settings.ignoreArrayOrder /\ Truthy(settings.keyField)
    /\ entries = compareArraysOrdered(left, right, settings, <<>>)
    /\ entries # compareArraysByKey(left, right, settings, <<>>)
    /\ entries # compareArraysUnordered(left, right, settings, <<>>)

----------------------------------------------------------------------------
(* C12: the equality of the unordered strategy *)

\* obj[key] for an own key, undefined for any other.
OwnOrUndefined(obj, key) == IF HasOwn(obj, key) THEN OwnValue(obj, key) ELSE Undefined

RECURSIVE DeepEquivalent(_, _, _)
\* Structural equality under the settings: key order is irrelevant, and
\* floatTolerance and treatNullAsUndefined apply at every depth.
DeepEquivalent(l, r, s) ==
    IF s.treatNullAsUndefined /\ l \in {Null, Undefined} /\ r \in {Null, Undefined}
    THEN TRUE
    ELSE IF l.k # r.k THEN FALSE
    ELSE IF l.k = "number" THEN l = r \/ WithinTolerance(l, r, s)
    ELSE IF l.k = "array"
    THEN /\ Len(l.v) = Len(r.v)
         /\ \A i \in 1..Len(l.v) : DeepEquivalent(l.v[i], r.v[i], s)
    ELSE IF l.k = "object"
    THEN \A key \in {l.v[i].key : i \in 1..Len(l.v)} \cup {r.v[i].key : i \in 1..Len(r.v)} :
            DeepEquivalent(OwnOrUndefined(l, key), OwnOrUndefined(r, key), s)
    ELSE l = r

RECURSIVE GreedyOutcome(_, _, _)
\* The entry type of each left element when each one, in order, consumes the
\* first remaining right element that is DeepEquivalent to it.
GreedyOutcome(leftItems, remaining, s) ==
    IF leftItems = <<>> THEN <<>>
    ELSE LET hits == {j \in 1..Len(remaining) :
                        DeepEquivalent(Head(leftItems), remaining[j], s)}
             first == CHOOSE j \in hits : \A h \in hits : j <= h
         IN  IF hits = {}
             THEN <<"removed">> \o GreedyOutcome(Tail(leftItems), remaining, s)
             ELSE <<"unchanged">> \o
                  GreedyOutcome(Tail(leftItems),
                                SubSeq(remaining, 1, first - 1)
                                \o SubSeq(remaining, first + 1, Len(remaining)), s)

UnorderedArrays == BothArrays /\ UsesUnorderedStrategy(settings)

\* C12: in the unordered strategy each left element, in order, is matched to
\* the first not-yet-matched right element that is deep-equal to it (key
\* order irrelevant, floatTolerance and treatNullAsUndefined honoured at every
\* depth); it is reported Unchanged when there is one and Removed otherwise.
C12_UnorderedMatchingEquality ==
    UnorderedArrays =>
        /\ Len(entries) >= Len(left.v)
        /\ \A i \in 1..Len(left.v) :
              /\ entries[i].path = <<ToString(i - 1)>>
              /\ entries[i].type = GreedyOutcome(left.v, right.v, settings)[i]

----------------------------------------------------------------------------
(* C13: the Added paths of the unordered strategy *)

\* The Added entries of the list, in order.
AddedEntries(list) == SelectSeq(list, LAMBDA e : e.type = "added")

\* C13: in the unordered strategy every right element left unmatched is
\* reported by exactly one Added entry at the element's index in the right
\* array: there are as many Added entries as unmatched right elements, each at
\* an index of the right array holding its rightValue, and no two at the same
\* index, duplicate values or not.
C13_UnorderedAddedPaths ==
    UnorderedArrays =>
        LET added == AddedEntries(entries)
        IN  /\ Len(added) = Len(right.v) - CountOfType(entries, "unchanged")
            /\ \A i \in Indices(added) :
                  \E j \in 1..Len(right.v) :
                      /\ added[i].path = <<ToString(j - 1)>>
                      /\ added[i].rightValue = right.v[j]
            /\ \A i, j \in Indices(added) : i # j => added[i].path # added[j].path

----------------------------------------------------------------------------
(* C14: the Added and Removed paths of the keyed strategy *)

KeyedArrays == BothArrays /\ settings.ignoreArrayOrder /\ Truthy(settings.keyField)

\* The positions of the elements of an array that carry the key value `key`.
PositionsOfKey(array, keyField, key) ==
    {i \in 1..Len(array.v) :
        /\ array.v[i].k = "object"
        /\ HasOwn(array.v[i], keyField)
        /\ StringOf(OwnValue(array.v[i], keyField)) = key}

\* The key values the elements of an array carry.
KeysOf(array, keyField) ==
    {StringOf(OwnValue(array.v[i], keyField)) :
        i \in {j \in 1..Len(array.v) :
                 array.v[j].k = "object" /\ HasOwn(array.v[j], keyField)}}

\* C14: in the keyed strategy an element whose key value occurs on one side
\* only is reported by one Removed (left only) or Added (right only) entry
\* whose path is the element's index in its own array; elements whose key
\* value occurs on both sides are reported by their recursive diff.
C14_KeyedPathsFromIndex ==
    KeyedArrays =>
        LET kf == settings.keyField.v
        IN  \A key \in KeysOf(left, kf) \cup KeysOf(right, kf) :
                LET lp == PositionsOfKey(left, kf, key)
                    rp == PositionsOfKey(right, kf, key)
                IN  /\ (Cardinality(lp) = 1 /\ rp = {}) =>
                          \A i \in lp :
                              Occurrences(entries,
                                  createRemovedEntry(<<ToString(i - 1)>>, left.v[i])) = 1
                    /\ (lp = {} /\ Cardinality(rp) = 1) =>
                          \A i \in rp :
                              Occurrences(entries,
                                  createAddedEntry(<<ToString(i - 1)>>, right.v[i])) = 1
                    /\ (Cardinality(lp) = 1 /\ Cardinality(rp) = 1) =>
                          \A i \in lp : \A j \in rp :
                              \E p \in {<<ToString(i - 1)>>, <<ToString(j - 1)>>, <<key>>} :
                                  EntriesUnder(entries, p) =
                                      computeDiff(left.v[i], right.v[j], settings, p)

----------------------------------------------------------------------------
(* C15: the keyed strategy does not see a reordering *)

\* Two sequences holding the same items the same number of times.
IsReordering(a, b) ==
    /\ Len(a) = Len(b)
    /\ \A i \in 1..Len(a) :
          Cardinality({j \in 1..Len(a) : a[j] = a[i]})
              = Cardinality({j \in 1..Len(b) : b[j] = a[i]})

\* Every element is an object with the key field, no two with the same value.
DistinctKeys(array, keyField) ==
    /\ \A i \in 1..Len(array.v) :
          array.v[i].k = "object" /\ HasOwn(array.v[i], keyField)
    /\ \A i, j \in 1..Len(array.v) :
          i # j => OwnValue(array.v[i], keyField) # OwnValue(array.v[j], keyField)

----------------------------------------------------------------------------
(* C16 *)

\* The entries formatAsJsonPatch emits an operation for, in entry order.
ChangedEntries(list) == SelectSeq(list, LAMBDA e : e.type # "unchanged")

\* The operation object is the one JSON Patch operation of the entry.
IsOperationOf(op, entry) ==
    /\ op.k = "object"
    /\ Get(op, "path") = Str("/" \o joinStrings(entry.path, "/"))
    /\ CASE entry.type = "added" ->
                /\ Get(op, "op") = Str("add")
                /\ HasOwn(op, "value") /\ Get(op, "value") = entry.rightValue
          [] entry.type = "removed" ->
                /\ Get(op, "op") = Str("remove")
                /\ ~HasOwn(op, "value")
          [] entry.type = "modified" ->
                /\ Get(op, "op") = Str("replace")
                /\ HasOwn(op, "value") /\ Get(op, "value") = entry.rightValue
          [] OTHER -> FALSE

\* The text is a JSON array holding, in order, the operation of each entry.
IsPatchOf(tokens, list) ==
    LET parsed == JSONparse(Text(tokens, 0))
    IN  /\ parsed.ok
        /\ isArray(parsed.value)
        /\ Len(parsed.value.v) = Len(list)
        /\ \A i \in 1..Len(list) : IsOperationOf(parsed.value.v[i], list[i])

\* C16: formatting a diff result as json-patch gives a JSON array with, in
\* entry order, exactly one operation per entry that is not Unchanged and none
\* for an Unchanged one: add with value = rightValue for Added, remove without
\* a value for Removed, replace with value = rightValue for Modified; the
\* number of operations is added + removed + modified of the statistics.
C16_JsonPatchMapping ==
    (pc = "formatted" /\ format = "json-patch") =>
        /\ ~result.threw
        /\ IsPatchOf(result.value, ChangedEntries(entries))
        /\ Len(ChangedEntries(entries)) = stats.added + stats.removed + stats.modified

\* A list with an Unchanged entry between a Modified and a Removed one has
\* been formatted as json-patch.
C16_Witness ==
    /\ pc = "formatted" /\ format = "json-patch"
    /\ Len(entries) = 3
    /\ entries[1].type = "modified"
    /\ entries[2].type = "unchanged"
    /\ entries[3].type = "removed"
    /\ ~result.threw

----------------------------------------------------------------------------
(* C17 *)

\* The call gave a Result, and the Result is a failure of the kind.
IsFailureOfKind(outcome, kind) ==
    /\ "ok" \in DOMAIN outcome
    /\ ~outcome.ok
    /\ outcome.error.type = kind

\* C17: formatting or exporting a diff result with a target outside json,
\* markdown, html and json-patch ends with a failure Result of kind
\* unsupported-format: no exception is thrown and no other kind is returned.
C17_UnsupportedFormatError ==
    (pc \in {"formatted", "exported"} /\ format \notin ExportFormats) =>
        IsFailureOfKind(result, "unsupported-format")

----------------------------------------------------------------------------
(* C18 *)

\* The documents a text body is a writing of: compact, indented, or compact
\* with white space around it.
WrittenFrom(body) ==
    {d \in Documents : \/ body = stringify(d)
                        \/ body = stringifyIndented(d, "  ", 0)
                        \/ body = <<" ">> \o stringify(d) \o <<"\n">>}

IsWellFormed(body) == WrittenFrom(body) # {}

\* C18: parseJson returns exactly one outcome for every text and throws
\* nothing: the error empty if the text is blank; otherwise the error
\* too-large if its byte length exceeds 10 MiB; otherwise the error parse with
\* the syntax error's message if the text is not well-formed JSON; otherwise
\* ok with the value the text writes.
C18_ParserClassification ==
    pc = "parsed" =>
        /\ "ok" \in DOMAIN result
        /\ IF isBlank(input)
           THEN ~result.ok /\ result.error.type = "empty"
           ELSE IF BlobSize(input) > 10 * 1024 * 1024
           THEN ~result.ok /\ result.error.type = "too-large"
           ELSE IF ~IsWellFormed(input.body)
           THEN /\ ~result.ok /\ result.error.type = "parse"
                /\ result.error.message = JSONparse(input).message
           ELSE result.ok /\ result.value \in WrittenFrom(input.body)

\* A blank text over the ceiling has been classified empty, not too-large.
C18_Witness ==
    /\ pc = "parsed"
    /\ isBlank(input) /\ BlobSize(input) > 10 * 1024 * 1024
    /\ result = err(ValidationErrorEmpty)

----------------------------------------------------------------------------
(* C19 *)

\* The text is one the parser rejects as too large: not blank, and over
\* 10 MiB in bytes.
IsTooLarge(text) == ~isBlank(text) /\ BlobSize(text) > 10 * 1024 * 1024

\* compareJson failed with the side's code and an error of the kind.
IsSideFailure(outcome, code, kind) ==
    /\ "ok" \in DOMAIN outcome
    /\ ~outcome.ok
    /\ outcome.error.type = code
    /\ outcome.error.error.type = kind

\* C19: a text over 10 MiB never gets through compareJson: a left text over
\* the ceiling ends the comparison with LEFT_PARSE_ERROR of kind too-large,
\* and so does a right one, with RIGHT_PARSE_ERROR, when the left text is
\* well-formed and within the ceiling.
C19_SizeCeilingInComparison ==
    pc # "input" =>
        /\ IsTooLarge(leftJson) =>
               IsSideFailure(result, "LEFT_PARSE_ERROR", "too-large")
        /\ (IsTooLarge(rightJson) /\ ~IsTooLarge(leftJson) /\ parseJson(leftJson).ok) =>
               IsSideFailure(result, "RIGHT_PARSE_ERROR", "too-large")

----------------------------------------------------------------------------
(* C20 *)

\* formatJson fails on the text under the settings of the comparison.
FormatFails(text) == ~formatJson(text, settings.formatSettings).ok

\* C20: with formatBeforeCompare set, when formatJson fails on a side,
\* compareJson fails with the parse error JsonDocument.fromString gives for
\* the original text of that side, the left one if both fail; it is the
\* outcome of the same comparison with formatBeforeCompare not set, and never
\* a success.
C20_FormatFallback ==
    (pc # "input" /\ settings.formatBeforeCompare
        /\ (FormatFails(leftJson) \/ FormatFails(rightJson))) =>
        /\ "ok" \in DOMAIN result /\ ~result.ok
        /\ result = compareJson(leftJson, rightJson,
                                [settings EXCEPT !.formatBeforeCompare = FALSE])
        /\ IF FormatFails(leftJson)
           THEN result = err([type |-> "LEFT_PARSE_ERROR",
                              error |-> fromString(leftJson, "left").error])
           ELSE result = err([type |-> "RIGHT_PARSE_ERROR",
                              error |-> fromString(rightJson, "right").error])

\* A comparison with formatBeforeCompare set whose left text was formatted
\* and whose right text was not has failed on the right side.
C20_Witness ==
    /\ pc = "failed"
    /\ settings.formatBeforeCompare
    /\ ~FormatFails(leftJson) /\ FormatFails(rightJson)
    /\ ~isBlank(rightJson)
    /\ leftJson # textToParse(leftJson, settings)
    /\ result.error.type = "RIGHT_PARSE_ERROR"
    /\ result.error.error.type = "parse"

----------------------------------------------------------------------------
(* C21 *)

\* C21: formatJson fails on exactly the texts parseJson fails on, with an
\* error value of the kind parseJson gives that text: empty, too-large or
\* parse.
C21_FormatterErrorTaxonomy ==
    pc = "formatted" =>
        /\ "ok" \in DOMAIN result
        /\ result.ok <=> parseJson(input).ok
        /\ ~result.ok => result.error.type = parseJson(input).error.type

----------------------------------------------------------------------------
(* C22 *)

\* C22: when formatJson succeeds on a text with value y, formatJson on y
\* under the same settings succeeds and returns exactly y.
C22_FormatIdempotence ==
    pc = "reformatted" => result = ok(input)

\* A text whose keys were not sorted and that was not indented has been
\* formatted with sortKeys, and its output formatted again.
C22_Witness ==
    /\ pc = "reformatted"
    /\ settings.formatSettings.sortKeys
    /\ result.ok
    /\ \E d \in UnsortedDocuments : JSONparse(input) = ok(sortObjectKeys(d)) /\ sortObjectKeys(d) # d

----------------------------------------------------------------------------
(* C23 *)

\* The document a well-formed text of the formatter's inputs writes, its
\* keys in the order of the text.
DocumentsWritten(body) ==
    {d \in Documents \cup UnsortedDocuments :
        \/ body = stringify(d)
        \/ body = stringifyIndented(d, "  ", 0)
        \/ body = <<" ">> \o stringify(d) \o <<"\n">>}

\* The position of a key in the ascending lexical order of the keys.
LexRank(key) == CHOOSE i \in 1..Len(KeyOrder) : KeyOrder[i] = key

RECURSIVE InsertByRank(_, _)
\* The property put into a list that is in ascending order of its keys.
InsertByRank(props, q) ==
    IF props = <<>> THEN <<q>>
    ELSE IF LexRank(q.key) < LexRank(Head(props).key) THEN <<q>> \o props
    ELSE <<Head(props)>> \o InsertByRank(Tail(props), q)

RECURSIVE LexSorted(_)
RECURSIVE LexSortedProps(_)
\* The document with the keys of every object in ascending lexical order,
\* every array in its order and every value as it was.
LexSorted(value) ==
    CASE value.k = "array" -> Arr([i \in 1..Len(value.v) |-> LexSorted(value.v[i])])
      [] value.k = "object" -> Obj(LexSortedProps(value.v))
      [] OTHER -> value

LexSortedProps(props) ==
    IF props = <<>> THEN <<>>
    ELSE InsertByRank(LexSortedProps(Tail(props)),
                      Prop(Head(props).key, LexSorted(Head(props).val)))

\* C23: with sortKeys set, the output of formatJson writes the input's
\* document with the keys of every object, at every depth and inside arrays,
\* in ascending lexical order, the arrays in their order and all values
\* unchanged.
C23_SortInvariant ==
    (pc = "formatted" /\ settings.formatSettings.sortKeys
        /\ DocumentsWritten(input.body) # {}) =>
        /\ result.ok
        /\ \A d \in DocumentsWritten(input.body) :
              result.value.body =
                  stringifyIndented(LexSorted(d), Gap(settings.formatSettings.indent), 0)

----------------------------------------------------------------------------
(* C24 *)

\* The display form: "$" for the root; otherwise "$." and the segments, an
\* index as "[n]" with nothing in front of it, the first segment as it is,
\* every later key with one dot in front of it.
DisplayForm(segments) ==
    IF segments = <<>> THEN <<"$">>
    ELSE <<"$", ".">> \o Flatten(
            [i \in 1..Len(segments) |->
                IF IsDigitString(segments[i]) THEN <<"[">> \o segments[i] \o <<"]">>
                ELSE IF i = 1 THEN segments[i]
                ELSE <<".">> \o segments[i]])

\* C24: the display string of a path is "$" for the root and otherwise the
\* "$.key[0].key2" notation: [n] for a numeric segment, attached to what
\* precedes it, exactly one dot before every key segment after the first,
\* no dot before the first segment.
C24_PathDisplayForm ==
    pc = "displayed" => result = DisplayForm(input)

----------------------------------------------------------------------------
(* C25 *)

\* C25: JsonPath.fromString(p.toString()) is p, for every path p.
C25_PathRoundTrip ==
    pc = "reparsed" => result = input

----------------------------------------------------------------------------
(* C26 *)

\* C26: right after a compare of the useDiff hook, whatever edits and
\* compares came before it: if it failed, the state holds its error and a
\* null diff result; if it succeeded, the state holds a diff result and a
\* null error.
C26_NoStaleResult ==
    /\ pc = "failed" => state.error = result.error /\ state.diffResult = Null
    /\ pc = "done" => state.diffResult # Null /\ state.error = Null

----------------------------------------------------------------------------
(* C27 *)

RECURSIVE ElementsOf(_)
\* The document and every value inside it.
ElementsOf(value) ==
    {value} \cup
    (CASE value.k = "array" -> UNION {ElementsOf(value.v[i]) : i \in 1..Len(value.v)}
       [] value.k = "object" -> UNION {ElementsOf(value.v[i].val) : i \in 1..Len(value.v)}
       [] OTHER -> {})

\* C27: every entry computeDiff emits carries values of the documents: its
\* leftValue, when present, is an element of the left document and its
\* rightValue, when present, an element of the right one; an Unchanged entry
\* of the unordered matching carries the matched right element.
C27_EntryValuesFromDocuments ==
    Done =>
        \A i \in Indices(entries) :
            /\ HasLeft(entries[i]) => entries[i].leftValue \in ElementsOf(left)
            /\ HasRight(entries[i]) => entries[i].rightValue \in ElementsOf(right)

----------------------------------------------------------------------------
(* C28 *)

\* Every element of the array is an object that has the key field.
AllCarryKey(array, keyField) ==
    \A i \in 1..Len(array.v) : array.v[i].k = "object" /\ HasOwn(array.v[i], keyField)

\* C28: in the keyed strategy, when every element of both arrays is an object
\* with the key field (two elements of one array may share a key value) and
\* equality is exact, a diff without an Added, Removed or Modified entry means
\* that the two arrays hold the same elements up to order: no element goes
\* unaccounted for.
C28_KeyedLosesNoElement ==
    (KeyedArrays /\ AllCarryKey(left, settings.keyField.v)
        /\ AllCarryKey(right, settings.keyField.v)
        /\ settings.floatTolerance = Undefined /\ ~settings.treatNullAsUndefined
        /\ \A i \in Indices(entries) : entries[i].type = "unchanged") =>
        IsReordering(left.v, right.v)

----------------------------------------------------------------------------
(* C29 *)

\* C29: no two entries of one computeDiff call have the same path, whatever
\* the two values and the settings.
C29_PathUniqueness ==
    Done => \A i, j \in Indices(entries) : i # j => entries[i].path # entries[j].path

----------------------------------------------------------------------------
(* C30 *)

\* The reference tokens of the documents' keys: none holds "/" or "~", so
\* none needs unescaping.
ReferenceTokens == {"id", "v", "toString"}

\* Pointers of the documents hold at most MaxPointerLen reference tokens.
MaxPointerLen == 4

RECURSIVE PointerOf(_)
\* The RFC 6901 pointer of a sequence of reference tokens: a "/" and the
\* token, once for every token.
PointerOf(tokens) ==
    IF tokens = <<>> THEN "" ELSE "/" \o Head(tokens) \o PointerOf(Tail(tokens))

IsPointer(pointer) ==
    \E tokens \in SeqsUpTo(ReferenceTokens, MaxPointerLen) : PointerOf(tokens) = pointer

\* The reference tokens a pointer is made of.
PointerTokens(pointer) ==
    CHOOSE tokens \in SeqsUpTo(ReferenceTokens, MaxPointerLen) : PointerOf(tokens) = pointer

\* The properties without the one of the key.
WithoutKey(props, key) == SelectSeq(props, LAMBDA q : q.key # key)

\* The properties with the value of the key replaced, or added last.
WithKey(props, key, val) ==
    IF \E i \in 1..Len(props) : props[i].key = key
    THEN [i \in 1..Len(props) |-> IF props[i].key = key THEN Prop(key, val) ELSE props[i]]
    ELSE Append(props, Prop(key, val))

Failed == [ok |-> FALSE]

RECURSIVE ApplyAt(_, _, _)
\* RFC 6902: the document after one operation at the location the tokens
\* name below it, or Failed: add needs the parent to exist, remove and
\* replace need the target to exist.
ApplyAt(doc, tokens, op) ==
    IF doc.k # "object" \/ tokens = <<>> THEN Failed
    ELSE IF Len(tokens) = 1
    THEN CASE Get(op, "op") = Str("add") ->
                ok(Obj(WithKey(doc.v, tokens[1], Get(op, "value"))))
           [] Get(op, "op") = Str("remove") ->
                IF HasOwn(doc, tokens[1]) THEN ok(Obj(WithoutKey(doc.v, tokens[1])))
                ELSE Failed
           [] Get(op, "op") = Str("replace") ->
                IF HasOwn(doc, tokens[1])
                THEN ok(Obj(WithKey(doc.v, tokens[1], Get(op, "value"))))
                ELSE Failed
           [] OTHER -> Failed
    ELSE IF ~HasOwn(doc, tokens[1]) THEN Failed
    ELSE LET below == ApplyAt(OwnValue(doc, tokens[1]), Tail(tokens), op)
         IN  IF below.ok THEN ok(Obj(WithKey(doc.v, tokens[1], below.value)))
             ELSE Failed

RECURSIVE ApplyPatch(_, _)
\* The document after the operations, applied in order.
ApplyPatch(doc, ops) ==
    IF ops = <<>> THEN ok(doc)
    ELSE LET pointer == Get(Head(ops), "path").v
             first == IF IsPointer(pointer)
                      THEN ApplyAt(doc, PointerTokens(pointer), Head(ops))
                      ELSE Failed
         IN  IF first.ok THEN ApplyPatch(first.value, Tail(ops)) ELSE Failed

\* C30: for two documents whose root is an object and that hold objects and
\* primitives only, whatever their keys, under the default settings: the
\* json-patch text of their diff is a list of operations which, applied in
\* order to the left document with every path read as an RFC 6901 pointer,
\* gives a document equal to the right one.
C30_PatchReconstruction ==
    pc = "formatted" =>
        /\ ~result.threw
        /\ JSONparse(Text(result.value, 0)).ok
        /\ ApplyPatch(left, JSONparse(Text(result.value, 0)).value.v).ok
        /\ DeepEquivalent(ApplyPatch(left, JSONparse(Text(result.value, 0)).value.v).value,
                          right, DEFAULT_COMPARE_SETTINGS)

====
